---- MODULE Spec2Model ----
(***************************************************************************)
(* The typed export conversion pipeline of lib/export.py.                  *)
(*                                                                         *)
(* ConvertValuesWithMetadata and the converters' BatchConvert / Convert    *)
(* methods are Python generators.  The model keeps the stack of generator  *)
(* activations (frames) that the consumer's iteration drives; one action   *)
(* is one step of the activation on top of the stack.  A value yielded by  *)
(* the top activation is re-yielded by every activation below it and is    *)
(* appended to `output`, the sequence the consumer has observed.  An       *)
(* exception raised by an activation unwinds the whole stack unless a      *)
(* handler is active in one of the activations below.                      *)
(*                                                                         *)
(* Spec is the consumer's iteration of ConvertValuesWithMetadata.  SpecGrr *)
(* is one GrrMessageConverter instance on which BatchConvert, an ordinary  *)
(* function that returns a list, is called batch after batch.  SpecStat is *)
(* the conversion of one group of StatEntry values by its two converters,  *)
(* SpecVolatility the construction and use of a volatility converter,      *)
(* SpecThreads concurrent GetConvertersByValue calls, SpecRun a collection *)
(* of GrrMessages converted sub-batch by sub-batch, SpecCalls interleaved  *)
(* engine invocations, SpecCancel the engine with a store call that may    *)
(* fail, and SpecCron the cron job approval workflow that the selenium     *)
(* test drives.  The specifications share the variables; each names in     *)
(* its initial state what the variables stand for when it differs.         *)
(***************************************************************************)
EXTENDS Integers, Sequences, FiniteSets, TLC

\* ------------------------------------------------------------------ bounds
\* Longest input sequence handed to ConvertValuesWithMetadata.
MaxInput == 2
\* Largest value the tunable RDFValueCollectionConverter.BATCH_SIZE takes.
MaxBatchSize == 2
\* Most messages handed to one GrrMessageConverter instance, over all its
\* BatchConvert calls.
MaxMessages == 3

\* --------------------------------------------------------- values and types
\* Python's None.
None == [type |-> "NoneType"]

\* value.__class__.__name__
TypeName(value) == value.type

Conn(local, remote, pid) ==
  [local_address |-> local, remote_address |-> remote, state |-> "LISTEN", pid |-> pid]

Process(pid, name, connections, open_files) ==
  [type |-> "Process", pid |-> pid, name |-> name,
   connections |-> connections, open_files |-> open_files]

\* A process with two open connections and one open file, and one with none.
P1 == Process(1, "cmd.exe", <<Conn("a1", "r1", 1), Conn("a2", "r2", 1)>>, <<"/f1">>)
P2 == Process(2, "init", <<>>, <<>>)

\* Two value types no converter declares as its input_rdf_type.
D1 == [type |-> "DataBlob", data |-> 1]
B1 == [type |-> "BufferReference", offset |-> 7]

\* A network address, an interface and a ClientSummary, with the fields the
\* ClientSummary converters read.
NetworkAddress(address_type, human_readable_address) ==
  [address_type |-> address_type, human_readable_address |-> human_readable_address]

Interface(ifname, addresses) == [ifname |-> ifname, addresses |-> addresses]

ClientSummary(interfaces) == [type |-> "ClientSummary", interfaces |-> interfaces]

\* A summary whose second interface has an address that is neither INET nor
\* INET6, and a summary with one good interface.
CS1 == ClientSummary(<< Interface("eth0", <<NetworkAddress("INET", "10.0.0.1")>>),
                        Interface("eth1", <<NetworkAddress("UNSPEC", "")>>) >>)
CS2 == ClientSummary(<< Interface("lo", <<NetworkAddress("INET", "127.0.0.1"),
                                          NetworkAddress("INET6", "::1")>>) >>)

\* A value of the input type of FileStoreImageToExportedFileStoreHashConverter.
I1 == [type |-> "ExportedFileStoreImage"]

\* A VolatilityResult without sections.
V1 == [type |-> "VolatilityResult", sections |-> <<>>]

RDFURN(urn) == [type |-> "RDFURN", urn |-> urn]

RDFValueCollection(items) == [type |-> "RDFValueCollection", items |-> items]

StatEntry(path, size) == [type |-> "StatEntry", aff4path |-> path, st_size |-> size]

\* The client objects of the store, each with its HOSTNAME attribute.
ClientUrns == {"aff4:/C.1", "aff4:/C.2"}

ClientObject(urn) ==
  [type |-> "VFSGRRClient", urn |-> urn,
   hostname |-> IF urn = "aff4:/C.1" THEN "host1" ELSE "host2"]

\* The AFF4 object store: two clients, a VFSFile with a STAT attribute, and a
\* volume, an object of a class no converter accepts.  Any other address is
\* missing.
StoreUrns == {"aff4:/C.1/fs/f1", "aff4:/C.1/vol"} \cup ClientUrns

StoreObject(urn) ==
  IF urn \in ClientUrns
  THEN ClientObject(urn)
  ELSE IF urn = "aff4:/C.1/fs/f1"
  THEN [type |-> "VFSFile", urn |-> urn, stat |-> StatEntry(urn, 10), hash |-> None]
  ELSE [type |-> "AFF4Volume", urn |-> urn]

U1 == RDFURN("aff4:/C.1/fs/f1")
U2 == RDFURN("aff4:/C.1/vol")
\* An address the store does not hold.
U3 == RDFURN("aff4:/C.1/fs/gone")

\* Records that can be stored in a collection.
Leaves == {P1, P2, D1}

\* ExportedMetadata objects the caller attaches to the values.
Metadatas == {"m1", "m2"}

\* ------------------------------------------------------------ the registry
\* ExportConverter.classes: every concrete ExportConverter subclass with its
\* input_rdf_type.  The registry enumerates them in an order of its own; the
\* model takes the order in which the classes are defined.
classes ==
  << [name |-> "StatEntryToExportedFileConverter", input_rdf_type |-> "StatEntry"],
     [name |-> "StatEntryToExportedRegistryKeyConverter", input_rdf_type |-> "StatEntry"],
     [name |-> "ProcessToExportedProcessConverter", input_rdf_type |-> "Process"],
     [name |-> "ProcessToExportedNetworkConnectionConverter", input_rdf_type |-> "Process"],
     [name |-> "ProcessToExportedOpenFileConverter", input_rdf_type |-> "Process"],
     [name |-> "VolatilityResultToExportedVolatilityHandleConverter",
      input_rdf_type |-> "VolatilityResult"],
     [name |-> "VolatilityResultToExportedVolatilityMutantConverter",
      input_rdf_type |-> "VolatilityResult"],
     [name |-> "ClientSummaryToExportedNetworkInterfaceConverter",
      input_rdf_type |-> "ClientSummary"],
     [name |-> "ClientSummaryToExportedClientConverter", input_rdf_type |-> "ClientSummary"],
     [name |-> "RDFURNConverter", input_rdf_type |-> "RDFURN"],
     [name |-> "RDFValueCollectionConverter", input_rdf_type |-> "RDFValueCollection"],
     [name |-> "VFSFileToExportedFileConverter", input_rdf_type |-> "VFSFile"],
     [name |-> "GrrMessageConverter", input_rdf_type |-> "GrrMessage"],
     [name |-> "FileStoreImageToExportedFileStoreHashConverter",
      input_rdf_type |-> "ExportedFileStoreImage"],
     [name |-> "FileStoreHashConverter", input_rdf_type |-> "FileStoreHash"] >>


Range(s) == {s[i] : i \in 1..Len(s)}

\* The concatenation of a sequence of sequences.
RECURSIVE Flatten(_)
Flatten(ss) == IF ss = <<>> THEN <<>> ELSE Head(ss) \o Flatten(Tail(ss))

\* All enumerations (without repetition) of a finite set.
Enumerations(S) ==
  {f \in [1..Cardinality(S) -> S] : \A i, j \in DOMAIN f : f[i] = f[j] => i = j}

\* Mutant: the search of the registry stops at the first matching class.
GetConvertersByValueFirstMatch(value, cache) ==
  IF TypeName(value) \in DOMAIN cache
  THEN [results |-> cache[TypeName(value)], cache |-> cache]
  ELSE LET found == SelectSeq(classes, LAMBDA cls : cls.input_rdf_type = TypeName(value))
           results == IF found = <<>> THEN <<>> ELSE <<found[1].name>>
       IN [results |-> results,
           cache |-> [t \in DOMAIN cache \cup {TypeName(value)} |->
                        IF t = TypeName(value) THEN results ELSE cache[t]]]

\* ExportConverter.GetConvertersByValue: the cached entry of the value's class
\* name, or on a miss the classes whose input_rdf_type equals it, which are
\* then stored in the cache.  Returns the result and the cache afterwards.
GetConvertersByValue(value, cache) ==
  IF TypeName(value) \in DOMAIN cache
  THEN [results |-> cache[TypeName(value)], cache |-> cache]
  ELSE LET found == SelectSeq(classes, LAMBDA cls : cls.input_rdf_type = TypeName(value))
           results == [i \in 1..Len(found) |-> found[i].name]
       IN [results |-> results,
           cache |-> [t \in DOMAIN cache \cup {TypeName(value)} |->
                        IF t = TypeName(value) THEN results ELSE cache[t]]]

\* ExportConverter.__init__: cls(options) keeps the options it is given, or
\* default-constructed ExportOptions when it is given none.
DefaultExportOptions == [export_files_hashes |-> FALSE, export_files_contents |-> FALSE]

NewConverter(cls, options) ==
  [cls |-> cls, options |-> IF options = None THEN DefaultExportOptions ELSE options]

\* Whether cls(options) can be called: the constructor that the volatility
\* converters inherit from VolatilityResultConverter takes no argument besides
\* self, so the call raises TypeError.
InitAcceptsOptions(cls) ==
  cls \notin {"VolatilityResultToExportedVolatilityHandleConverter",
              "VolatilityResultToExportedVolatilityMutantConverter"}

\* ------------------------------------------------- the converters' Convert
\* ProcessToExportedProcessConverter.Convert: one ExportedProcess whose scalar
\* fields are copied from the process (pid and name stand for the scalars).
ProcessToExportedProcess(metadata, process) ==
  << [kind |-> "ExportedProcess", metadata |-> metadata,
      pid |-> process.pid, name |-> process.name] >>

\* ProcessToExportedNetworkConnectionConverter.Convert: one
\* ExportedNetworkConnection per element of process.connections, in order.
ProcessToExportedNetworkConnection(metadata, process) ==
  [i \in 1..Len(process.connections) |->
     [kind |-> "ExportedNetworkConnection", metadata |-> metadata,
      local_address |-> process.connections[i].local_address,
      remote_address |-> process.connections[i].remote_address,
      state |-> process.connections[i].state,
      pid |-> process.connections[i].pid]]

\* ProcessToExportedOpenFileConverter.Convert: one ExportedOpenFile per open file.
ProcessToExportedOpenFile(metadata, process) ==
  [i \in 1..Len(process.open_files) |->
     [kind |-> "ExportedOpenFile", metadata |-> metadata,
      pid |-> process.pid, path |-> process.open_files[i]]]

\* StatEntryToExportedFileConverter.ParseFileHash: the hash fields present in
\* hash_obj are copied into the result.
ParseFileHash(hash_obj, result) ==
  [result EXCEPT !.hash_sha256 = hash_obj.sha256]

\* VFSFileToExportedFileConverter.Convert: nothing without a STAT attribute,
\* else one ExportedFile, with the hash fields when the object has a HASH.
VFSFileToExportedFile(metadata, vfs_file) ==
  IF vfs_file.stat = None
  THEN <<>>
  ELSE LET result == [kind |-> "ExportedFile", metadata |-> metadata,
                      urn |-> vfs_file.stat.aff4path,
                      st_size |-> vfs_file.stat.st_size,
                      hash_sha256 |-> ""]
       IN << IF vfs_file.hash # None THEN ParseFileHash(vfs_file.hash, result)
             ELSE result >>

\* The addresses of an interface are all INET or INET6.
ValidAddresses(interface) ==
  \A i \in 1..Len(interface.addresses) :
    interface.addresses[i].address_type \in {"INET", "INET6"}

\* " ".join of the human readable addresses of one family, as the list of them.
AddressesOf(interface, family) ==
  LET addrs == SelectSeq(interface.addresses, LAMBDA addr : addr.address_type = family)
  IN [i \in 1..Len(addrs) |-> addrs[i].human_readable_address]

\* The interfaces Convert gets through before it meets an invalid address.
RECURSIVE ValidPrefix(_)
ValidPrefix(interfaces) ==
  IF interfaces = <<>> \/ ~ValidAddresses(Head(interfaces)) THEN <<>>
  ELSE <<Head(interfaces)>> \o ValidPrefix(Tail(interfaces))

\* ClientSummaryToExportedNetworkInterfaceConverter.Convert: one
\* ExportedNetworkInterface per interface, yielded until an interface holds
\* an address of an invalid type.
ClientSummaryToExportedNetworkInterface(metadata, client_summary) ==
  LET interfaces == ValidPrefix(client_summary.interfaces)
  IN [i \in 1..Len(interfaces) |->
        [kind |-> "ExportedNetworkInterface", metadata |-> metadata,
         ifname |-> interfaces[i].ifname,
         ip4_addresses |-> AddressesOf(interfaces[i], "INET"),
         ip6_addresses |-> AddressesOf(interfaces[i], "INET6")]]

\* ClientSummaryToExportedClientConverter.Convert: one ExportedClient.
ClientSummaryToExportedClient(metadata, unused_client_summary) ==
  << [kind |-> "ExportedClient", metadata |-> metadata] >>

\* The converters whose Convert returns its results without calling back into
\* the engine or the store.
LeafClasses ==
  {"ProcessToExportedProcessConverter", "ProcessToExportedNetworkConnectionConverter",
   "ProcessToExportedOpenFileConverter", "VFSFileToExportedFileConverter",
   "ClientSummaryToExportedNetworkInterfaceConverter",
   "ClientSummaryToExportedClientConverter"}

\* The exception converter.Convert(metadata, value, token) of a leaf converter
\* raises after its last result, or None: ValueError for a ClientSummary with
\* an address of an invalid type.
LeafConvertRaises(cls, value) ==
  IF /\ cls = "ClientSummaryToExportedNetworkInterfaceConverter"
     /\ \E i \in 1..Len(value.interfaces) : ~ValidAddresses(value.interfaces[i])
  THEN [type |-> "ValueError", text |-> "Invalid address type"]
  ELSE None

\* converter.Convert(metadata, value, token) of a leaf converter.
LeafConvert(cls, metadata, value) ==
  CASE cls = "ProcessToExportedProcessConverter" ->
         ProcessToExportedProcess(metadata, value)
    [] cls = "ProcessToExportedNetworkConnectionConverter" ->
         ProcessToExportedNetworkConnection(metadata, value)
    [] cls = "ProcessToExportedOpenFileConverter" ->
         ProcessToExportedOpenFile(metadata, value)
    [] cls = "VFSFileToExportedFileConverter" ->
         VFSFileToExportedFile(metadata, value)
    [] cls = "ClientSummaryToExportedNetworkInterfaceConverter" ->
         ClientSummaryToExportedNetworkInterface(metadata, value)
    [] cls = "ClientSummaryToExportedClientConverter" ->
         ClientSummaryToExportedClient(metadata, value)

\* ------------------------------------------------------- library functions
\* utils.GroupBy(items, key): a dictionary from each key to the list of the
\* items with that key, in the order of the input.
GroupBy(pairs) ==
  [t \in {TypeName(pairs[i][2]) : i \in 1..Len(pairs)} |->
     SelectSeq(pairs, LAMBDA pair : TypeName(pair[2]) = t)]

\* utils.GroupBy(metadata_value_pairs, key).iteritems(): the (rdf_type, group)
\* items in the dictionary's iteration order.  That order is fixed by the
\* dictionary implementation (hashes of the class names), not by the code:
\* every enumeration of the keys is an outcome.
GroupedItems(pairs) ==
  {[i \in 1..Len(order) |-> [rdf_type |-> order[i], group |-> GroupBy(pairs)[order[i]]]] :
     order \in Enumerations(DOMAIN GroupBy(pairs))}

\* utils.Grouper(iterable, n): consecutive chunks of n items, the last one
\* holding the remainder.
RECURSIVE Grouper(_, _)
Grouper(items, n) ==
  IF items = <<>> THEN <<>>
  ELSE IF Len(items) <= n THEN <<items>>
  ELSE <<SubSeq(items, 1, n)>> \o Grouper(SubSeq(items, n + 1, Len(items)), n)

\* aff4.FACTORY.MultiOpen(urns): the objects of the addresses the store
\* holds, each once, in an order the store chooses; a missing address is
\* absent from the result.
MultiOpen(urns) ==
  {[i \in 1..Len(order) |-> StoreObject(order[i])] :
     order \in Enumerations(urns \cap StoreUrns)}


\* ---------------------------------------------------------------- inputs
\* A mixed collection with a record of an unconvertible type in the middle,
\* a collection of convertible records, and an empty collection.
CollMixed == RDFValueCollection(<<P1, D1, P2>>)
CollProcs == RDFValueCollection(<<P2, P1, P2>>)
CollEmpty == RDFValueCollection(<<>>)

\* The (metadata, value) pairs the caller's input is made of.
InputPairs ==
  { <<"m1", P1>>, <<"m2", P2>>, <<"m1", D1>>, <<"m2", B1>>,
    <<"m1", U1>>, <<"m2", U2>>, <<"m2", U1>>, <<"m1", U3>>,
    <<"m1", CollMixed>>, <<"m2", CollProcs>>, <<"m1", CollEmpty>>,
    <<"m1", V1>>, <<"m1", CS1>>, <<"m2", CS2>>, <<"m1", I1>> }

Inputs == UNION {[1..n -> InputPairs] : n \in 0..MaxInput}

\* The caller's security token and export options.
CallerToken == [type |-> "ACLToken", username |-> "analyst"]
CallerOptions == [export_files_hashes |-> TRUE, export_files_contents |-> FALSE]

\* ------------------------------------------------------------------ state
VARIABLES
  input,             \* metadata_value_pairs of the caller's call
  token,             \* token of the caller's call
  options,           \* options of the caller's call
  BATCH_SIZE,        \* RDFValueCollectionConverter.BATCH_SIZE
  stack,             \* the generator activations, outermost first
  output,            \* the results the consumer has received so far
  status,            \* "init", "running", "done" (exhausted) or "raised"
  error,             \* the exception that reached the consumer, or None
  converters_cache,  \* ExportConverter.converters_cache
  calls,             \* history: every activation of ConvertValuesWithMetadata
  visited,           \* history: every type group an activation has taken up
  store_calls,       \* history: every call made to the AFF4 object store
  cached_metadata,   \* cached_metadata of the GrrMessageConverter instance in use
  batch_convert      \* history: the last BatchConvert call made on that instance

vars == <<input, token, options, BATCH_SIZE, stack, output, status, error,
          converters_cache, calls, visited, store_calls, cached_metadata,
          batch_convert>>

\* No BatchConvert call has been made on the GrrMessageConverter instance.
NoBatchConvert == [messages |-> 0]

HasCollection(pairs) ==
  \E i \in 1..Len(pairs) : TypeName(pairs[i][2]) = "RDFValueCollection"

\* The state before the consumer starts to iterate.  BATCH_SIZE is read by
\* the collection converter alone, so it varies only when the input holds a
\* collection.
Init ==
  /\ input \in Inputs
  /\ token = CallerToken
  /\ options = CallerOptions
  /\ BATCH_SIZE \in (IF HasCollection(input) THEN 1..MaxBatchSize ELSE {1})
  /\ stack = <<>>
  /\ output = <<>>
  /\ status = "init"
  /\ error = None
  /\ converters_cache = <<>>
  /\ calls = <<>>
  /\ visited = <<>>
  /\ store_calls = <<>>
  /\ cached_metadata = <<>>
  /\ batch_convert = NoBatchConvert

Top == stack[Len(stack)]
SetTop(frame) == [stack EXCEPT ![Len(stack)] = frame]
Push(st, frame) == Append(st, frame)
Pop(st) == SubSeq(st, 1, Len(st) - 1)

\* A fresh activation of ConvertValuesWithMetadata(pairs, token, options),
\* entered from `via`, whose GroupBy(...).iteritems() enumerates `items`.
EngineFrame(via, items, tok, opts) ==
  [kind |-> "engine", via |-> via, items |-> items, gi |-> 0,
   converters |-> <<>>, ci |-> 0, no_converter_found_error |-> None,
   token |-> tok, options |-> opts, mark |-> Len(output)]

CallRecord(via, pairs, tok, opts) ==
  [via |-> via, pairs |-> pairs, token |-> tok, options |-> opts,
   depth |-> Len(stack) + 1, outlen |-> Len(output)]

\* The engine activation on top of the stack is between two converters.
EngineIdle ==
  /\ status = "running"
  /\ stack # <<>>
  /\ Top.kind = "engine"

\* The consumer starts iterating ConvertValuesWithMetadata(input, token, options).
Convert ==
  /\ status = "init"
  /\ \E items \in GroupedItems(input) :
       stack' = <<EngineFrame("caller", items, token, options)>>
  /\ calls' = Append(calls, CallRecord("caller", input, token, options))
  /\ status' = "running"
  /\ UNCHANGED <<input, token, options, BATCH_SIZE, output, error,
                 converters_cache, visited, store_calls,
                 cached_metadata, batch_convert>>

\* The loop over the groups takes up the next group.
NextGroupReady ==
  /\ EngineIdle
  /\ Top.ci = Len(Top.converters)
  /\ Top.gi < Len(Top.items)

NextGroup == Top.items[Top.gi + 1].group
FirstValue == NextGroup[1][2]
Lookup == GetConvertersByValue(FirstValue, converters_cache)

VisitRecord(found) ==
  [depth |-> Len(stack), rdf_type |-> Top.items[Top.gi + 1].rdf_type,
   found |-> found, outlen |-> Len(output)]

\* Mutant: NoConverterFound is raised as soon as a group has no converter.
EngineNoConverterRaisesAtOnce ==
  /\ NextGroupReady
  /\ Lookup.results = <<>>
  /\ stack' = <<>>
  /\ status' = "raised"
  /\ error' = [type |-> "NoConverterFound", message |-> FirstValue,
               via |-> Top.via, depth |-> Len(stack), items |-> Top.items]
  /\ converters_cache' = Lookup.cache
  /\ visited' = Append(visited, VisitRecord(FALSE))
  /\ UNCHANGED <<input, token, options, BATCH_SIZE, output, calls, store_calls,
                 cached_metadata, batch_convert>>

\* Mutant: the message of the first group without converter is kept.
EngineNoConverterKeepsFirst ==
  /\ NextGroupReady
  /\ Lookup.results = <<>>
  /\ stack' = SetTop([Top EXCEPT !.gi = @ + 1, !.converters = <<>>, !.ci = 0,
                                 !.no_converter_found_error =
                                   IF @ = None THEN FirstValue ELSE @])
  /\ converters_cache' = Lookup.cache
  /\ visited' = Append(visited, VisitRecord(FALSE))
  /\ UNCHANGED <<input, token, options, BATCH_SIZE, output, status, error, calls, store_calls,
                 cached_metadata, batch_convert>>

\* Mutant: the loop over the groups is left (break) instead of continued.
EngineNoConverterBreaks ==
  /\ NextGroupReady
  /\ Lookup.results = <<>>
  /\ stack' = SetTop([Top EXCEPT !.gi = Len(Top.items), !.converters = <<>>, !.ci = 0,
                                 !.no_converter_found_error = FirstValue])
  /\ converters_cache' = Lookup.cache
  /\ visited' = Append(visited, VisitRecord(FALSE))
  /\ UNCHANGED <<input, token, options, BATCH_SIZE, output, status, error, calls, store_calls,
                 cached_metadata, batch_convert>>

\* A group with no converter: the message is recorded and the loop continues.
EngineNoConverter ==
  /\ NextGroupReady
  /\ Lookup.results = <<>>
  /\ stack' = SetTop([Top EXCEPT !.gi = @ + 1, !.converters = <<>>, !.ci = 0,
                                 !.no_converter_found_error = FirstValue])
  /\ converters_cache' = Lookup.cache
  /\ visited' = Append(visited, VisitRecord(FALSE))
  /\ UNCHANGED <<input, token, options, BATCH_SIZE, output, status, error, calls, store_calls,
                 cached_metadata, batch_convert>>

\* An exception that no activation handles reaches the consumer; d is the
\* depth of the innermost engine activation it passes.
Exception(type, text, d) ==
  [type |-> type, message |-> [type |-> "str", text |-> text],
   via |-> stack[d].via, depth |-> d, items |-> stack[d].items]

\* A group with converters, one of which cannot be constructed with an
\* options argument: the list comprehension raises TypeError.
EngineInstantiateRaises ==
  /\ NextGroupReady
  /\ Lookup.results # <<>>
  /\ \E i \in 1..Len(Lookup.results) : ~InitAcceptsOptions(Lookup.results[i])
  /\ stack' = <<>>
  /\ status' = "raised"
  /\ error' = Exception("TypeError", "__init__() takes exactly 1 argument (2 given)",
                         Len(stack))
  /\ converters_cache' = Lookup.cache
  /\ visited' = Append(visited, VisitRecord(TRUE))
  /\ UNCHANGED <<input, token, options, BATCH_SIZE, output, calls, store_calls,
                 cached_metadata, batch_convert>>

\* A group with converters: one instance of each class is made.
EngineInstantiate ==
  /\ NextGroupReady
  /\ Lookup.results # <<>>
  /\ \A i \in 1..Len(Lookup.results) : InitAcceptsOptions(Lookup.results[i])
  /\ stack' = SetTop([Top EXCEPT
                        !.gi = @ + 1,
                        !.converters = [i \in 1..Len(Lookup.results) |->
                                          NewConverter(Lookup.results[i], Top.options)],
                        !.ci = 0,
                        !.mark = Len(output)])
  /\ converters_cache' = Lookup.cache
  /\ visited' = Append(visited, VisitRecord(TRUE))
  /\ UNCHANGED <<input, token, options, BATCH_SIZE, output, status, error, calls, store_calls,
                 cached_metadata, batch_convert>>

\* The loop over the converters of the current group calls the next one.
NextConverterReady ==
  /\ EngineIdle
  /\ Top.ci < Len(Top.converters)

NextConverter == Top.converters[Top.ci + 1]
CurrentGroup == Top.items[Top.gi].group

\* ExportConverter.BatchConvert, the default implementation, is entered.
BatchFrame(converter, pairs, tok) ==
  [kind |-> "batch", converter |-> converter, pairs |-> pairs, pi |-> 0,
   results |-> <<>>, ri |-> 0, raises |-> None, token |-> tok, mark |-> Len(output)]

\* Mutant: only the first converter of a group is applied.
DefaultBatchConvertFirstOnly ==
  /\ NextConverterReady
  /\ NextConverter.cls \in LeafClasses \cup {"RDFValueCollectionConverter"}
  /\ stack' = Push(SetTop([Top EXCEPT !.ci = Len(Top.converters)]),
                   BatchFrame(NextConverter, CurrentGroup, Top.token))
  /\ UNCHANGED <<input, token, options, BATCH_SIZE, output, status, error,
                 converters_cache, calls, visited, store_calls,
                 cached_metadata, batch_convert>>

DefaultBatchConvert ==
  /\ NextConverterReady
  /\ NextConverter.cls \in LeafClasses \cup {"RDFValueCollectionConverter"}
  /\ stack' = Push(SetTop([Top EXCEPT !.ci = @ + 1]),
                   BatchFrame(NextConverter, CurrentGroup, Top.token))
  /\ UNCHANGED <<input, token, options, BATCH_SIZE, output, status, error,
                 converters_cache, calls, visited, store_calls,
                 cached_metadata, batch_convert>>


\* dict(urn_metadata_pairs): each RDFURN of the batch with the metadata of
\* the last pair that holds it.
UrnsDict(pairs) ==
  LET urn_pairs == SelectSeq(pairs, LAMBDA pair : TypeName(pair[2]) = "RDFURN")
      last(urn) == CHOOSE i \in 1..Len(urn_pairs) :
                     /\ urn_pairs[i][2].urn = urn
                     /\ \A j \in 1..Len(urn_pairs) : urn_pairs[j][2].urn = urn => j <= i
  IN [urn \in {urn_pairs[i][2].urn : i \in 1..Len(urn_pairs)} |-> urn_pairs[last(urn)][1]]

\* A call to the object store made by the BatchConvert of the converter `by`
\* for the batch `pairs`: the operation, the addresses asked for and the token
\* given.
StoreCall(by, op, urns, tok, pairs) ==
  [by |-> by, op |-> op, urns |-> urns, token |-> tok, pairs |-> pairs,
   depth |-> Len(stack)]

\* Whether the `except NoConverterFound` clause of RDFURNConverter.BatchConvert
\* is active while the generator it returns is iterated.  The try block only
\* creates the generator and is left by `return` before the generator's body
\* runs, so it is not.
RDFURNHandlerActive == FALSE

\* Mutant: every address of the batch is opened by a call of its own.
RDFURNBatchConvertOpensEach ==
  /\ NextConverterReady
  /\ NextConverter.cls = "RDFURNConverter"
  /\ \E fds \in MultiOpen(DOMAIN UrnsDict(CurrentGroup)) :
       LET batch == [i \in 1..Len(fds) |-> <<UrnsDict(CurrentGroup)[fds[i].urn], fds[i]>>]
       IN /\ \E items \in GroupedItems(batch) :
               stack' = Push(SetTop([Top EXCEPT !.ci = @ + 1]),
                             EngineFrame("RDFURNConverter", items, None, None))
          /\ calls' = Append(calls, CallRecord("RDFURNConverter", batch, None, None))
  /\ store_calls' = store_calls \o
                      [i \in 1..Len(CurrentGroup) |->
                         StoreCall("RDFURNConverter", "MultiOpen",
                                   {CurrentGroup[i][2].urn}, Top.token, CurrentGroup)]
  /\ UNCHANGED <<input, token, options, BATCH_SIZE, output, status, error,
                 converters_cache, visited,
                 cached_metadata, batch_convert>>

\* RDFURNConverter.BatchConvert: one MultiOpen of the batch's urns, then the
\* generator ConvertValuesWithMetadata(batch), called without token and
\* options, is returned to the engine, which iterates it.
RDFURNBatchConvert ==
  /\ NextConverterReady
  /\ NextConverter.cls = "RDFURNConverter"
  /\ \E fds \in MultiOpen(DOMAIN UrnsDict(CurrentGroup)) :
       LET batch == [i \in 1..Len(fds) |-> <<UrnsDict(CurrentGroup)[fds[i].urn], fds[i]>>]
       IN /\ \E items \in GroupedItems(batch) :
               stack' = Push(SetTop([Top EXCEPT !.ci = @ + 1]),
                             EngineFrame("RDFURNConverter", items, None, None))
          /\ calls' = Append(calls, CallRecord("RDFURNConverter", batch, None, None))
  /\ store_calls' = Append(store_calls,
                           StoreCall("RDFURNConverter", "MultiOpen",
                                     DOMAIN UrnsDict(CurrentGroup), Top.token,
                                     CurrentGroup))
  /\ UNCHANGED <<input, token, options, BATCH_SIZE, output, status, error,
                 converters_cache, visited,
                 cached_metadata, batch_convert>>

\* The default BatchConvert is between two results of self.Convert.
BatchIdle ==
  /\ status = "running"
  /\ stack # <<>>
  /\ Top.kind = "batch"

NextPairReady ==
  /\ BatchIdle
  /\ Top.ri = Len(Top.results)
  /\ Top.raises = None
  /\ Top.pi < Len(Top.pairs)

NextPair == Top.pairs[Top.pi + 1]

\* Mutant: every iteration converts the first pair of the batch again.
BatchConvertLeafFirstPair ==
  /\ NextPairReady
  /\ Top.converter.cls \in LeafClasses
  /\ stack' = SetTop([Top EXCEPT
                        !.pi = @ + 1,
                        !.results = LeafConvert(Top.converter.cls, Top.pairs[1][1],
                                                Top.pairs[1][2]),
                        !.ri = 0])
  /\ UNCHANGED <<input, token, options, BATCH_SIZE, output, status, error,
                 converters_cache, calls, visited, store_calls,
                 cached_metadata, batch_convert>>

\* The default BatchConvert calls self.Convert(metadata, value, token) of a
\* converter that computes its results by itself.
BatchConvertLeaf ==
  /\ NextPairReady
  /\ Top.converter.cls \in LeafClasses
  /\ stack' = SetTop([Top EXCEPT
                        !.pi = @ + 1,
                        !.results = LeafConvert(Top.converter.cls, NextPair[1], NextPair[2]),
                        !.ri = 0,
                        !.raises = LeafConvertRaises(Top.converter.cls, NextPair[2])])
  /\ UNCHANGED <<input, token, options, BATCH_SIZE, output, status, error,
                 converters_cache, calls, visited, store_calls,
                 cached_metadata, batch_convert>>

\* The default BatchConvert passes the next result of self.Convert on; every
\* activation below re-yields it, and the consumer receives it.
Yield ==
  /\ BatchIdle
  /\ Top.ri < Len(Top.results)
  /\ output' = Append(output, Top.results[Top.ri + 1])
  /\ stack' = SetTop([Top EXCEPT !.ri = @ + 1])
  /\ UNCHANGED <<input, token, options, BATCH_SIZE, status, error,
                 converters_cache, calls, visited, store_calls,
                 cached_metadata, batch_convert>>

\* self.Convert raises after its last result: the exception passes through
\* the default BatchConvert and every activation below it.
BatchRaise ==
  /\ BatchIdle
  /\ Top.ri = Len(Top.results)
  /\ Top.raises # None
  /\ stack' = <<>>
  /\ status' = "raised"
  /\ error' = Exception(Top.raises.type, Top.raises.text, Len(stack) - 1)
  /\ UNCHANGED <<input, token, options, BATCH_SIZE, output,
                 converters_cache, calls, visited, store_calls,
                 cached_metadata, batch_convert>>

\* FileStoreImageToExportedFileStoreHashConverter.BatchConvert raises
\* NotImplementedError as soon as the engine calls it.
FileStoreImageBatchConvert ==
  /\ NextConverterReady
  /\ NextConverter.cls = "FileStoreImageToExportedFileStoreHashConverter"
  /\ stack' = <<>>
  /\ status' = "raised"
  /\ error' = Exception("NotImplementedError", "", Len(stack))
  /\ UNCHANGED <<input, token, options, BATCH_SIZE, output,
                 converters_cache, calls, visited, store_calls,
                 cached_metadata, batch_convert>>

\* RDFValueCollectionConverter.Convert is entered: nothing for an empty
\* collection, else the collection is cut into batches of BATCH_SIZE.
CollectionFrame(converter, metadata, collection, tok) ==
  [kind |-> "collection", converter |-> converter, metadata |-> metadata,
   collection |-> collection,
   batches |-> IF collection.items = <<>> THEN <<>>
               ELSE Grouper(collection.items, BATCH_SIZE),
   bi |-> 0, token |-> tok]

BatchConvertCollection ==
  /\ NextPairReady
  /\ Top.converter.cls = "RDFValueCollectionConverter"
  /\ stack' = Push(SetTop([Top EXCEPT !.pi = @ + 1, !.results = <<>>, !.ri = 0]),
                   CollectionFrame(Top.converter, NextPair[1], NextPair[2], Top.token))
  /\ UNCHANGED <<input, token, options, BATCH_SIZE, output, status, error,
                 converters_cache, calls, visited, store_calls,
                 cached_metadata, batch_convert>>

\* ConvertValues(default_metadata, values, token, options): every value is
\* paired with the same metadata.
ConvertValuesPairs(default_metadata, values) ==
  [i \in 1..Len(values) |-> <<default_metadata, values[i]>>]

\* The collection converter converts its next batch with ConvertValues.
CollectionNextBatch ==
  /\ status = "running"
  /\ stack # <<>>
  /\ Top.kind = "collection"
  /\ Top.bi < Len(Top.batches)
  /\ LET batch_data == ConvertValuesPairs(Top.metadata, Top.batches[Top.bi + 1])
     IN /\ \E items \in GroupedItems(batch_data) :
             stack' = Push(SetTop([Top EXCEPT !.bi = @ + 1]),
                           EngineFrame("RDFValueCollectionConverter", items,
                                       Top.token, Top.converter.options))
        /\ calls' = Append(calls, CallRecord("RDFValueCollectionConverter", batch_data,
                                             Top.token, Top.converter.options))
  /\ UNCHANGED <<input, token, options, BATCH_SIZE, output, status, error,
                 converters_cache, visited, store_calls,
                 cached_metadata, batch_convert>>

\* The activation on top of the stack has nothing left to do.
Exhausted(frame) ==
  CASE frame.kind = "engine" ->
         /\ frame.gi = Len(frame.items)
         /\ frame.ci = Len(frame.converters)
    [] frame.kind = "batch" ->
         /\ frame.pi = Len(frame.pairs)
         /\ frame.ri = Len(frame.results)
         /\ frame.raises = None
    [] frame.kind = "collection" ->
         frame.bi = Len(frame.batches)

\* A generator ends normally: its caller goes on; the consumer's iteration
\* ends when the outermost one does.
Return ==
  /\ status = "running"
  /\ stack # <<>>
  /\ Exhausted(Top)
  /\ Top.kind = "engine" => Top.no_converter_found_error = None
  /\ stack' = Pop(stack)
  /\ status' = IF Len(stack) = 1 THEN "done" ELSE "running"
  /\ UNCHANGED <<input, token, options, BATCH_SIZE, output, error,
                 converters_cache, calls, visited, store_calls,
                 cached_metadata, batch_convert>>

\* The activations that survive an exception raised by the top activation:
\* those below the innermost active handler, none when no handler is active.
Unwind(st) ==
  LET handlers == {i \in 1..Len(st) :
                     /\ st[i].kind = "engine"
                     /\ st[i].via = "RDFURNConverter"
                     /\ RDFURNHandlerActive}
  IN IF handlers = {} THEN <<>>
     ELSE SubSeq(st, 1, (CHOOSE i \in handlers : \A j \in handlers : j <= i) - 1)

\* ConvertValuesWithMetadata ends its loop with a recorded message and raises
\* NoConverterFound, which propagates through the activations below it.
EngineRaise ==
  /\ EngineIdle
  /\ Exhausted(Top)
  /\ Top.no_converter_found_error # None
  /\ stack' = Unwind(stack)
  /\ IF Unwind(stack) = <<>>
     THEN /\ status' = "raised"
          /\ error' = [type |-> "NoConverterFound",
                       message |-> Top.no_converter_found_error,
                       via |-> Top.via, depth |-> Len(stack), items |-> Top.items]
     ELSE UNCHANGED <<status, error>>
  /\ UNCHANGED <<input, token, options, BATCH_SIZE, output,
                 converters_cache, calls, visited, store_calls,
                 cached_metadata, batch_convert>>

Next ==
  \/ Convert
  \/ EngineNoConverter
  \/ EngineInstantiate
  \/ EngineInstantiateRaises
  \/ DefaultBatchConvert
  \/ RDFURNBatchConvert
  \/ BatchConvertLeaf
  \/ BatchRaise
  \/ FileStoreImageBatchConvert
  \/ BatchConvertCollection
  \/ CollectionNextBatch
  \/ Yield
  \/ Return
  \/ EngineRaise

Spec == Init /\ [][Next]_vars


\* ----------------------------------------------- vocabulary of the claims
\* Some converter class declares `tag` as its input_rdf_type.
Registered(tag) == \E i \in 1..Len(classes) : classes[i].input_rdf_type = tag

RegisteredFor(tag) ==
  {classes[i].name : i \in {j \in 1..Len(classes) : classes[j].input_rdf_type = tag}}

TagsOf(pairs) == {TypeName(pairs[i][2]) : i \in 1..Len(pairs)}

Finished == status \in {"done", "raised"}

RaisedNoConverterFound == status = "raised" /\ error.type = "NoConverterFound"

\* Number of occurrences of r in the sequence s.
Count(s, r) == Cardinality({i \in 1..Len(s) : s[i] = r})

SameBag(s, t) ==
  /\ Len(s) = Len(t)
  /\ \A r \in Range(s) \cup Range(t) : Count(s, r) = Count(t, r)

\* The type groups the caller's activation has taken up, in order.
TopVisited == SelectSeq(visited, LAMBDA v : v.depth = 1)
TopVisitedTags == [i \in 1..Len(TopVisited) |-> TopVisited[i].rdf_type]

\* What the three Process converters are to produce for one (metadata, process).
ExpectedProcess(metadata, process) ==
  [kind |-> "ExportedProcess", metadata |-> metadata,
   pid |-> process.pid, name |-> process.name]

ExpectedConnection(metadata, conn) ==
  [kind |-> "ExportedNetworkConnection", metadata |-> metadata,
   local_address |-> conn.local_address, remote_address |-> conn.remote_address,
   state |-> conn.state, pid |-> conn.pid]

ExpectedOpenFile(metadata, process, path) ==
  [kind |-> "ExportedOpenFile", metadata |-> metadata, pid |-> process.pid, path |-> path]

ExpectedOfProcess(metadata, process) ==
  {ExpectedProcess(metadata, process)}
    \cup {ExpectedConnection(metadata, process.connections[j]) :
            j \in 1..Len(process.connections)}
    \cup {ExpectedOpenFile(metadata, process, process.open_files[j]) :
            j \in 1..Len(process.open_files)}


\* ------------------------------------------------------------------ claims
\* C1: consuming ConvertValuesWithMetadata ends with NoConverterFound if and
\* only if some type group of the input has no registered converter, and the
\* error is raised only after every type group of the input has been taken up.
C1_NoConverterFoundIff ==
  Finished =>
    /\ RaisedNoConverterFound <=> (\E tag \in TagsOf(input) : ~Registered(tag))
    /\ RaisedNoConverterFound => Range(TopVisitedTags) = TagsOf(input)

\* The types all of whose converters compute their results from the pair alone.
DirectType(tag) == Registered(tag) /\ RegisteredFor(tag) \subseteq LeafClasses

\* The outputs of the converters of a direct type for one group, converter by
\* converter, pair by pair.
GroupOutputs(group) ==
  LET tag == TypeName(group[1][2])
      convs == SelectSeq(classes, LAMBDA cls : cls.input_rdf_type = tag)
  IN Flatten([c \in 1..Len(convs) |->
                Flatten([i \in 1..Len(group) |->
                           LeafConvert(convs[c].name, group[i][1], group[i][2])])])

InputGroup(tag) == SelectSeq(input, LAMBDA pair : TypeName(pair[2]) = tag)

\* C2: when the caller's engine call raises NoConverterFound for a group
\* without converter, the consumer has by then received every output of the
\* converters of every convertible group of the input, whichever group came
\* first in the input or in the engine's processing order.
C2_OutputsBeforeNoConverterFound ==
  (RaisedNoConverterFound /\ error.depth = 1) =>
    \A tag \in TagsOf(input) :
      DirectType(tag) =>
        \A r \in Range(GroupOutputs(InputGroup(tag))) :
          Count(output, r) >= Count(GroupOutputs(InputGroup(tag)), r)

\* Witness of C2: a run over a Process and a DataBlob in which the DataBlob
\* group was taken up first and the Process outputs were still delivered
\* before the error.
C2_Witness ==
  /\ RaisedNoConverterFound
  /\ error.depth = 1
  /\ TagsOf(input) = {"Process", "DataBlob"}
  /\ TopVisitedTags = <<"DataBlob", "Process">>
  /\ TypeName(input[1][2]) = "Process"
  /\ Len(output) >= 2

\* C3: a NoConverterFound of the recursive conversion of the objects an
\* RDFURN batch resolves to never reaches the consumer.
C3_DownstreamNoConverterFoundSwallowed ==
  ~(RaisedNoConverterFound /\ error.via = "RDFURNConverter")


\* The input is one (metadata, collection) pair.
SingleCollection ==
  /\ Len(input) = 1
  /\ TypeName(input[1][2]) = "RDFValueCollection"

\* What one un-batched engine pass over (metadata, item) pairs of directly
\* convertible or unregistered records yields, as a bag: every output of every
\* converter of every record.
UnbatchedOutputs(metadata, items) ==
  Flatten([i \in 1..Len(items) |->
             IF Registered(TypeName(items[i]))
             THEN GroupOutputs(<<<<metadata, items[i]>>>>)
             ELSE <<>>])

\* C4: the per-sub-batch results of the collection converter, concatenated,
\* hold the same outputs as one un-batched engine pass over all records of the
\* collection, and the two end the same way.
C4_BatchedEqualsUnbatched ==
  (Finished /\ SingleCollection) =>
    /\ SameBag(output, UnbatchedOutputs(input[1][1], input[1][2].items))
    /\ RaisedNoConverterFound <=>
         (\E i \in 1..Len(input[1][2].items) :
            ~Registered(TypeName(input[1][2].items[i])))

\* ceil(n / b)
Ceil(n, b) == (n + b - 1) \div b

Min(a, b) == IF a <= b THEN a ELSE b

\* The k-th of the consecutive sub-batches of size b of items.
SubBatch(items, b, k) == SubSeq(items, (k - 1) * b + 1, Min(k * b, Len(items)))

CollectionCalls == SelectSeq(calls, LAMBDA c : c.via = "RDFValueCollectionConverter")

\* C5: for a collection of n records the collection converter has, when the
\* conversion ends, re-entered the engine exactly ceil(n / BATCH_SIZE) times,
\* on the consecutive sub-batches in collection order, each with the
\* collection's metadata on every member; an empty collection causes no
\* recursion and no error.
C5_CeilSubBatches ==
  (Finished /\ SingleCollection) =>
    LET metadata == input[1][1]
        items == input[1][2].items
    IN /\ Len(CollectionCalls) = Ceil(Len(items), BATCH_SIZE)
       /\ \A k \in 1..Len(CollectionCalls) :
            CollectionCalls[k].pairs =
              ConvertValuesPairs(metadata, SubBatch(items, BATCH_SIZE, k))
       /\ \A k \in 1..(Len(CollectionCalls) - 1) :
            CollectionCalls[k].outlen <= CollectionCalls[k + 1].outlen
       /\ items = <<>> => status = "done"

\* C6: when the engine has run the converters of a Process group, it has made
\* one instance of each converter class registered for Process, and the
\* outputs of the group hold, for every (metadata, process) of the group,
\* exactly one ExportedProcess and exactly one ExportedNetworkConnection per
\* connection of the process, each with that metadata and the fields of its
\* connection, and nothing but the outputs of the group's records.
ProcessGroupDone ==
  /\ EngineIdle
  /\ Top.gi >= 1
  /\ Top.items[Top.gi].rdf_type = "Process"
  /\ Top.ci = Len(Top.converters)

C6_AllConvertersOfTheGroup ==
  ProcessGroupDone =>
    LET group == Top.items[Top.gi].group
        outs == SubSeq(output, Top.mark + 1, Len(output))
        OfKind(kind) == SelectSeq(outs, LAMBDA r : r.kind = kind)
        Connections(i) == group[i][2].connections
    IN /\ {Top.converters[c].cls : c \in 1..Len(Top.converters)} = RegisteredFor("Process")
       /\ Len(Top.converters) = Cardinality(RegisteredFor("Process"))
       /\ \A i \in 1..Len(group) :
            /\ Count(outs, ExpectedProcess(group[i][1], group[i][2]))
                 = Count(group, group[i])
            /\ \A j \in 1..Len(Connections(i)) :
                 Count(outs, ExpectedConnection(group[i][1], Connections(i)[j]))
                   = Count(group, group[i]) * Count(Connections(i), Connections(i)[j])
       /\ Len(OfKind("ExportedProcess")) = Len(group)
       /\ Len(OfKind("ExportedNetworkConnection"))
            = Len(Flatten([i \in 1..Len(group) |-> Connections(i)]))
       /\ Range(outs) \subseteq
            UNION {ExpectedOfProcess(group[i][1], group[i][2]) : i \in 1..Len(group)}

\* Witness of C6: the caller's engine has finished a group of two processes,
\* one of them with two connections, and delivered both connections.
C6_Witness ==
  /\ ProcessGroupDone
  /\ Len(stack) = 1
  /\ Len(Top.items[Top.gi].group) = 2
  /\ \E i \in 1..2 : Len(Top.items[Top.gi].group[i][2].connections) = 2
  /\ Cardinality({i \in 1..Len(output) :
                    output[i].kind = "ExportedNetworkConnection"}) = 2
  /\ Cardinality({i \in 1..Len(output) : output[i].kind = "ExportedProcess"}) = 2


\* The first sub-batch of items that holds a record of an unregistered type,
\* or the number of sub-batches when there is none.
LastConvertedSubBatch(items, b) ==
  LET failing == {k \in 1..Ceil(Len(items), b) :
                    \E i \in 1..Len(SubBatch(items, b, k)) :
                      ~Registered(TypeName(SubBatch(items, b, k)[i]))}
  IN IF failing = {} THEN Ceil(Len(items), b)
     ELSE CHOOSE k \in failing : \A j \in failing : k <= j

\* The outputs of converting the one pair (metadata, value) by itself with
\* every converter registered for its type.
OneByOne(metadata, value) ==
  CASE DirectType(TypeName(value)) ->
         Range(GroupOutputs(<<<<metadata, value>>>>))
    [] TypeName(value) = "RDFURN" ->
         IF value.urn \in StoreUrns /\ DirectType(TypeName(StoreObject(value.urn)))
         THEN Range(GroupOutputs(<<<<metadata, StoreObject(value.urn)>>>>))
         ELSE {}
    [] TypeName(value) = "RDFValueCollection" ->
         UNION {Range(UnbatchedOutputs(metadata, SubBatch(value.items, BATCH_SIZE, k))) :
                  k \in 1..LastConvertedSubBatch(value.items, BATCH_SIZE)}
    [] OTHER -> {}

\* C7: the engine's groups partition the input pairs by type tag, each pair in
\* the group of its own type and in input order inside it, and the set of
\* outputs of the whole run equals the set obtained by converting the pairs
\* one by one.
C7_GroupingCorrectness ==
  /\ status = "running" =>
       LET items == stack[1].items
       IN /\ \A g, h \in 1..Len(items) : items[g].rdf_type = items[h].rdf_type => g = h
          /\ {items[g].rdf_type : g \in 1..Len(items)} = TagsOf(input)
          /\ \A g \in 1..Len(items) :
               items[g].group =
                 SelectSeq(input, LAMBDA pair : TypeName(pair[2]) = items[g].rdf_type)
  /\ Finished =>
       Range(output) = UNION {OneByOne(input[i][1], input[i][2]) : i \in 1..Len(input)}

\* The first value of the last group, in the order of items, whose type has no
\* registered converter.
LastUnmatchedFirstValue(items) ==
  LET unmatched == {g \in 1..Len(items) : ~Registered(items[g].rdf_type)}
      last == CHOOSE g \in unmatched : \A h \in unmatched : h <= g
  IN items[last].group[1][2]

\* C8: the message of a raised NoConverterFound names one group alone: the
\* last group without converter in the order in which the raising engine call
\* took up its groups, by the first value of that group.
C8_LastUnmatchedGroupNamed ==
  RaisedNoConverterFound =>
    /\ \E g \in 1..Len(error.items) : ~Registered(error.items[g].rdf_type)
    /\ error.message = LastUnmatchedFirstValue(error.items)

\* Witness of C8: the caller's call raised after two groups without converter,
\* DataBlob taken up before BufferReference.
C8_Witness ==
  /\ RaisedNoConverterFound
  /\ error.depth = 1
  /\ TopVisitedTags = <<"DataBlob", "BufferReference">>
  /\ error.message = B1

\* The distinct type tags of pairs in the order of their first occurrence.
RECURSIVE FirstSeen(_)
FirstSeen(pairs) ==
  IF pairs = <<>> THEN <<>>
  ELSE LET front == FirstSeen(SubSeq(pairs, 1, Len(pairs) - 1))
           tag == TypeName(pairs[Len(pairs)][2])
       IN IF tag \in Range(front) THEN front ELSE Append(front, tag)

IsPrefix(s, t) == Len(s) <= Len(t) /\ s = SubSeq(t, 1, Len(s))

\* C9 as stated: the caller's engine call takes up the type groups in the
\* first-seen order of the distinct type tags of the input.
C9_FirstSeenOrder == IsPrefix(TopVisitedTags, FirstSeen(input))

\* C9 as amended: the caller's engine call takes up the groups in the order
\* in which the dictionary of groups enumerates them, each distinct type tag
\* of the input at most once and, when the call runs to its end (it is
\* exhausted or raises its own NoConverterFound), exactly once; the output
\* blocks of the groups follow one another in that order.
C9_DictionaryOrder ==
  /\ \A i, j \in 1..Len(TopVisitedTags) : TopVisitedTags[i] = TopVisitedTags[j] => i = j
  /\ Range(TopVisitedTags) \subseteq TagsOf(input)
  /\ status = "running" =>
       TopVisitedTags = [g \in 1..stack[1].gi |-> stack[1].items[g].rdf_type]
  /\ (status = "done" \/ (RaisedNoConverterFound /\ error.depth = 1)) =>
       Range(TopVisitedTags) = TagsOf(input)
  /\ (RaisedNoConverterFound /\ error.depth = 1) =>
       TopVisitedTags = [g \in 1..Len(error.items) |-> error.items[g].rdf_type]
  /\ \A i \in 1..(Len(TopVisited) - 1) : TopVisited[i].outlen <= TopVisited[i + 1].outlen

\* Witness of C9: a completed run that took up the Process group before the
\* RDFURN group although the RDFURN came first in the input.
C9_Witness ==
  /\ status = "done"
  /\ Len(input) = 2
  /\ TypeName(input[1][2]) = "RDFURN"
  /\ TopVisitedTags = <<"Process", "RDFURN">>
  /\ output # <<>>

\* C10: the default BatchConvert of a converter whose Convert computes its
\* results from the pair has, at every moment, yielded exactly the results of
\* Convert for the pairs before the current one, pair after pair in input
\* order, followed by the results of the current pair passed on so far; when
\* it ends it has yielded Convert(p1) ++ ... ++ Convert(pn).
C10_DefaultBatchConvertConcatenates ==
  (BatchIdle /\ Top.converter.cls \in LeafClasses) =>
    /\ SubSeq(output, Top.mark + 1, Len(output))
         = Flatten([i \in 1..(Top.pi - 1) |->
                      LeafConvert(Top.converter.cls, Top.pairs[i][1], Top.pairs[i][2])])
           \o SubSeq(Top.results, 1, Top.ri)
    /\ Top.pi >= 1 =>
         Top.results = LeafConvert(Top.converter.cls, Top.pairs[Top.pi][1],
                                   Top.pairs[Top.pi][2])
    /\ Top.pi = 0 => Top.results = <<>>

\* Witness of C10: a default BatchConvert over two different pairs has ended
\* after passing on results of both.
C10_Witness ==
  /\ BatchIdle
  /\ Top.converter.cls = "ProcessToExportedProcessConverter"
  /\ Len(Top.pairs) = 2
  /\ Top.pairs[1] # Top.pairs[2]
  /\ Exhausted(Top)
  /\ Len(output) - Top.mark = 2


\* RDFURNConverter.Convert(metadata, value): BatchConvert of the one-pair
\* batch, for an address that is missing or holds a VFSFile: the store is
\* asked for the one address and the object found is converted with the
\* pair's own metadata.
RDFURNConvert(metadata, value) ==
  LET urns_dict == UrnsDict(<<<<metadata, value>>>>)
  IN IF value.urn \in StoreUrns
     THEN VFSFileToExportedFile(urns_dict[value.urn], StoreObject(value.urn))
     ELSE <<>>

\* The addresses of the batch hold VFSFiles or nothing.
FilesOrMissing(pairs) ==
  \A i \in 1..Len(pairs) :
    /\ TypeName(pairs[i][2]) = "RDFURN"
    /\ pairs[i][2].urn \in StoreUrns => TypeName(StoreObject(pairs[i][2].urn)) = "VFSFile"

\* The batch the RDFURNConverter was given, while the activation at depth d
\* converts the objects the batch resolved to.
RDFURNBatchAt(d) == stack[d - 1].items[stack[d - 1].gi].group

\* The RDFURNConverter's BatchConvert has delivered all its results: the
\* engine activation it returned is on top of the stack and has run to its end.
RDFURNBatchDone ==
  /\ status = "running"
  /\ Len(stack) >= 2
  /\ Top.kind = "engine"
  /\ Top.via = "RDFURNConverter"
  /\ Exhausted(Top)
  /\ Top.no_converter_found_error = None

\* C11: BatchConvert of a batch yields the same set of outputs as Convert of
\* each of its pairs, also when the same address occurs in several pairs with
\* different metadata (checked for the RDFURNConverter on batches of addresses
\* of files and of missing addresses).
C11_BatchConvertEqualsConverts ==
  (RDFURNBatchDone /\ FilesOrMissing(RDFURNBatchAt(Len(stack)))) =>
    Range(SubSeq(output, Top.mark + 1, Len(output))) =
      UNION {Range(RDFURNConvert(RDFURNBatchAt(Len(stack))[i][1],
                                 RDFURNBatchAt(Len(stack))[i][2])) :
               i \in 1..Len(RDFURNBatchAt(Len(stack)))}


\* The converters an engine activation holds for the group it has taken up.
ConvertersAt(d) == {stack[d].converters[i].cls : i \in 1..Len(stack[d].converters)}

\* C12: every entry of converters_cache holds exactly the registered converter
\* classes whose input_rdf_type is the entry's class name; every lookup hands
\* the engine that set; a class name without converter is cached as the empty
\* list, and a later lookup of it again finds nothing and raises nothing.
C12_CacheEqualsRegistry ==
  /\ \A tag \in DOMAIN converters_cache :
       Range(converters_cache[tag]) = RegisteredFor(tag)
  /\ \A d \in 1..Len(stack) :
       (stack[d].kind = "engine" /\ stack[d].gi > 0) =>
         /\ stack[d].items[stack[d].gi].rdf_type \in DOMAIN converters_cache
         /\ ConvertersAt(d) = RegisteredFor(stack[d].items[stack[d].gi].rdf_type)
  /\ \A i \in 1..Len(visited) :
       /\ visited[i].rdf_type \in DOMAIN converters_cache
       /\ visited[i].found <=> Registered(visited[i].rdf_type)

\* Witness of C12: a class name without converter was looked up twice, the
\* second time from the cache, and the run went on after both lookups.
C12_Witness ==
  /\ status = "running"
  /\ \E i, j \in 1..Len(visited) :
       /\ i < j
       /\ visited[i].rdf_type = visited[j].rdf_type
       /\ ~visited[i].found
       /\ ~visited[j].found
       /\ converters_cache[visited[i].rdf_type] = <<>>
  /\ \E tag \in DOMAIN converters_cache : Cardinality(RegisteredFor(tag)) = 3


\* The object-store calls of the RDFURNConverter, and the engine activations
\* its BatchConvert calls have returned.
RDFURNStoreCalls == SelectSeq(store_calls, LAMBDA c : c.by = "RDFURNConverter")
RDFURNBatches == SelectSeq(calls, LAMBDA c : c.via = "RDFURNConverter")

UrnsOf(pairs) == {pairs[i][2].urn : i \in 1..Len(pairs)}

\* C13: RDFURNConverter.BatchConvert makes exactly one MultiOpen call per
\* batch, for all the addresses of the batch, however many pairs it holds.
C13_OneMultiOpenPerBatch ==
  /\ Len(RDFURNStoreCalls) = Len(RDFURNBatches)
  /\ \A i \in 1..Len(RDFURNStoreCalls) :
       /\ RDFURNStoreCalls[i].op = "MultiOpen"
       /\ RDFURNStoreCalls[i].pairs = InputGroup("RDFURN")
       /\ RDFURNStoreCalls[i].urns = UrnsOf(InputGroup("RDFURN"))
  /\ Len(RDFURNStoreCalls) <= 1
  /\ (status = "done" /\ "RDFURN" \in TagsOf(input)) => Len(RDFURNStoreCalls) = 1

\* Witness of C13: a finished run over a batch of two pairs with two addresses,
\* one of them missing, opened by one call.
C13_Witness ==
  /\ status = "done"
  /\ Len(InputGroup("RDFURN")) = 2
  /\ Len(RDFURNStoreCalls) = 1
  /\ Cardinality(RDFURNStoreCalls[1].urns) = 2
  /\ U3.urn \in RDFURNStoreCalls[1].urns


\* What the engine yields for the one pair (metadata, X), X being the object
\* stored at the address, or nothing for an address the store does not hold.
DirectOutputs(metadata, value) ==
  IF value.urn \in StoreUrns
  THEN GroupOutputs(<<<<metadata, StoreObject(value.urn)>>>>)
  ELSE <<>>

\* C14: for every pair of an RDFURN batch whose address resolves to an object
\* X the results hold the outputs of converting (metadata, X) through the
\* engine, and nothing else, also when an address occurs in several pairs with
\* different metadata; a pair whose address does not resolve adds no output
\* and no error.
C14_IndirectionEqualsDirect ==
  /\ (RDFURNBatchDone /\ FilesOrMissing(RDFURNBatchAt(Len(stack)))) =>
       LET batch == RDFURNBatchAt(Len(stack))
           results == SubSeq(output, Top.mark + 1, Len(output))
       IN /\ \A i \in 1..Len(batch) :
               Range(DirectOutputs(batch[i][1], batch[i][2])) \subseteq Range(results)
          /\ \A r \in Range(results) :
               \E i \in 1..Len(batch) : r \in Range(DirectOutputs(batch[i][1], batch[i][2]))
  /\ (Finished /\ input # <<>> /\ FilesOrMissing(input)) => status = "done"


\* C15: every converter instance made while the caller's call is served, in
\* the caller's engine activation and in the nested ones, holds the caller's
\* options, and an instance of every registered class can be made with them.
C15_ConstructedWithCallerOptions ==
  /\ \A d \in 1..Len(stack) :
       stack[d].kind = "engine" =>
         \A i \in 1..Len(stack[d].converters) : stack[d].converters[i].options = options
  /\ \A d \in 1..Len(stack) :
       stack[d].kind \in {"batch", "collection"} => stack[d].converter.options = options
  /\ ~(status = "raised" /\ error.type = "TypeError")


\* C16: the caller's token is the token of every object-store call, of every
\* engine activation and of every converter call made while the caller's call
\* is served.
C16_TokenPassedUnchanged ==
  /\ \A i \in 1..Len(store_calls) : store_calls[i].token = token
  /\ \A i \in 1..Len(calls) : calls[i].token = token
  /\ \A d \in 1..Len(stack) : stack[d].token = token


\* ------------------------------------------------- the GrrMessageConverter
\* An ExportedMetadata object: client_urn and hostname stand for the fields
\* that describe the client, source_urn and timestamp for the provenance.
ExportedMetadata(client_urn, hostname, source_urn, timestamp) ==
  [type |-> "ExportedMetadata", client_urn |-> client_urn, hostname |-> hostname,
   source_urn |-> source_urn, timestamp |-> timestamp]

GrrMessage(source, payload) ==
  [type |-> "GrrMessage", source |-> source, payload |-> payload]

\* RDFDatetime().Now() at the time a client's metadata is built.
Now == 9

\* GetMetadata(client_fd, token): the metadata of an opened client object.
GetMetadata(client_fd) ==
  ExportedMetadata(client_fd.urn, client_fd.hostname, "", Now)

\* Metadata a caller supplies with a message: provenance only.
MA == ExportedMetadata("", "", "aff4:/hunts/H:1/Results", 1)
MB == ExportedMetadata("", "", "aff4:/flows/F:2", 2)

\* Messages of the two clients and of a source the store does not hold, with
\* Process payloads and one payload of a type without converter.
GrrPairs ==
  { <<MA, GrrMessage("aff4:/C.1", P1)>>, <<MB, GrrMessage("aff4:/C.2", P2)>>,
    <<MB, GrrMessage("aff4:/C.1", P2)>>, <<MA, GrrMessage("aff4:/C.9", P1)>>,
    <<MA, GrrMessage("aff4:/C.2", D1)>> }

\* The batches of at most n messages.
GrrBatches(n) == UNION {[1..k -> GrrPairs] : k \in 0..n}

\* msg_dict: the pairs of the batch grouped by msg.source, in batch order.
MsgDict(pairs) ==
  [source \in {pairs[i][2].source : i \in 1..Len(pairs)} |->
     SelectSeq(pairs, LAMBDA pair : pair[2].source = source)]

\* The first loop over msg_dict.iterkeys(), taken in the order `keys`: the
\* cached metadata of the sources found in the cache.
CachedMetadataObjects(keys, cache) ==
  LET hits == SelectSeq(keys, LAMBDA client_urn : client_urn \in DOMAIN cache)
  IN [i \in 1..Len(hits) |-> cache[hits[i]]]

\* Mutant: every source of the batch is fetched, cached or not.
MetadataToFetchAll(keys, cache) == keys

\* metadata_to_fetch: the sources not found in the cache.
MetadataToFetch(keys, cache) ==
  SelectSeq(keys, LAMBDA client_urn : client_urn \notin DOMAIN cache)

\* self.cached_metadata after the fetched metadata were stored, each under
\* its own client_urn.
CachedMetadataAfter(cache, fetched_metadata) ==
  LET urns == {fetched_metadata[i].client_urn : i \in 1..Len(fetched_metadata)}
  IN [client_urn \in DOMAIN cache \cup urns |->
        IF client_urn \in urns
        THEN fetched_metadata[CHOOSE i \in 1..Len(fetched_metadata) :
                                fetched_metadata[i].client_urn = client_urn]
        ELSE cache[client_urn]]

\* Mutant: the client's own timestamp is kept.
NewMetadataKeepsTimestamp(metadata, original_metadata) ==
  [metadata EXCEPT !.source_urn = original_metadata.source_urn]

\* new_metadata: a copy of the client's metadata with the source_urn and the
\* timestamp of the metadata supplied with the message.
NewMetadata(metadata, original_metadata) ==
  [metadata EXCEPT !.source_urn = original_metadata.source_urn,
                   !.timestamp = original_metadata.timestamp]

\* Mutant: the messages of a source without metadata object are converted
\* with the metadata supplied with them.
BatchDataKeepsUnresolved(metadata_objects, msg_dict) ==
  LET known == {metadata_objects[i].client_urn : i \in 1..Len(metadata_objects)}
      resolved == Flatten([i \in 1..Len(metadata_objects) |->
                    LET msgs == msg_dict[metadata_objects[i].client_urn]
                    IN [j \in 1..Len(msgs) |->
                          <<NewMetadata(metadata_objects[i], msgs[j][1]),
                            msgs[j][2].payload>>]])
      others == CHOOSE order \in Enumerations(DOMAIN msg_dict \ known) : TRUE
  IN resolved \o Flatten([i \in 1..Len(others) |->
                            [j \in 1..Len(msg_dict[others[i]]) |->
                               <<msg_dict[others[i]][j][1],
                                 msg_dict[others[i]][j][2].payload>>]])

\* batch_data: for every metadata object, the messages of its client, each
\* payload with its new_metadata; a metadata object whose client_urn is no
\* key of msg_dict adds nothing.
BatchData(metadata_objects, msg_dict) ==
  Flatten([i \in 1..Len(metadata_objects) |->
             IF metadata_objects[i].client_urn \in DOMAIN msg_dict
             THEN LET msgs == msg_dict[metadata_objects[i].client_urn]
                  IN [j \in 1..Len(msgs) |->
                        <<NewMetadata(metadata_objects[i], msgs[j][1]),
                          msgs[j][2].payload>>]
             ELSE <<>>])


\* converter.BatchConvert(batch_data, token) of the converters of the first
\* payload, all of which inherit the default BatchConvert: every pair is
\* converted by every converter, converter by converter.
PayloadBatchConvert(converters, batch_data) ==
  Flatten([c \in 1..Len(converters) |->
             Flatten([i \in 1..Len(batch_data) |->
                        LeafConvert(converters[c].cls, batch_data[i][1],
                                    batch_data[i][2])])])

\* The values GrrMessageConverter.BatchConvert computes for a non-empty
\* batch, msg_dict.iterkeys() enumerating `keys` and MultiOpen returning
\* `client_fds`.
GrrLocals(pairs, keys, client_fds) ==
  LET lookup == GetConvertersByValue(pairs[1][2].payload, converters_cache)
      msg_dict == MsgDict(pairs)
      metadata_to_fetch == MetadataToFetch(keys, cached_metadata)
      fetched_metadata == [i \in 1..Len(client_fds) |-> GetMetadata(client_fds[i])]
      metadata_objects == CachedMetadataObjects(keys, cached_metadata) \o fetched_metadata
  IN [converters_classes |-> lookup.results,
      converters_cache |-> lookup.cache,
      converters |-> [i \in 1..Len(lookup.results) |->
                        NewConverter(lookup.results[i], options)],
      msg_dict |-> msg_dict,
      metadata_to_fetch |-> metadata_to_fetch,
      fetched_metadata |-> fetched_metadata,
      metadata_objects |-> metadata_objects,
      batch_data |-> BatchData(metadata_objects, msg_dict),
      cached_metadata |-> IF metadata_to_fetch = <<>> THEN cached_metadata
                          ELSE CachedMetadataAfter(cached_metadata, fetched_metadata)]

\* A converter of the first payload's type is given a payload of another
\* type, whose fields it cannot read.
PayloadMismatch(pairs, locals) ==
  /\ locals.converters # <<>>
  /\ \E i \in 1..Len(locals.batch_data) :
       TypeName(locals.batch_data[i][2]) # TypeName(pairs[1][2].payload)

GrrException(type, text) ==
  [type |-> type, message |-> [type |-> "str", text |-> text],
   via |-> "GrrMessageConverter", depth |-> 0, items |-> <<>>]

\* The record kept of a BatchConvert call: the number of messages the instance
\* has been handed so far, the batch, the cache and the number of store calls
\* before the call, and the call's locals.
BatchConvertRecord(pairs, locals) ==
  [messages |-> batch_convert.messages + Len(pairs),
   pairs |-> pairs,
   cached_before |-> cached_metadata,
   store_calls_before |-> Len(store_calls),
   metadata_to_fetch |-> locals.metadata_to_fetch,
   fetched_metadata |-> locals.fetched_metadata,
   batch_data |-> locals.batch_data]

\* The state after the construction of a GrrMessageConverter with the
\* caller's options: its cached_metadata is empty.
InitGrr ==
  /\ input = <<>>
  /\ token = CallerToken
  /\ options = CallerOptions
  /\ BATCH_SIZE = 1
  /\ stack = <<>>
  /\ output = <<>>
  /\ status = "init"
  /\ error = None
  /\ converters_cache = <<>>
  /\ calls = <<>>
  /\ visited = <<>>
  /\ store_calls = <<>>
  /\ cached_metadata = <<>>
  /\ batch_convert = NoBatchConvert

\* BatchConvert(pairs, token) is called on the instance with a non-empty
\* batch and returns converted_batch, or raises when a converter meets a
\* payload it cannot read.
GrrMessageBatchConvert ==
  /\ \E pairs \in GrrBatches(MaxMessages - batch_convert.messages) \ {<<>>} :
       \E keys \in Enumerations(DOMAIN MsgDict(pairs)) :
         \E client_fds \in MultiOpen(Range(MetadataToFetch(keys, cached_metadata))) :
           LET locals == GrrLocals(pairs, keys, client_fds)
           IN /\ input' = pairs
              /\ converters_cache' = locals.converters_cache
              /\ store_calls' =
                   IF locals.metadata_to_fetch = <<>> THEN store_calls
                   ELSE Append(store_calls,
                               [by |-> "GrrMessageConverter", op |-> "MultiOpen",
                                urns |-> Range(locals.metadata_to_fetch),
                                token |-> token, pairs |-> pairs, depth |-> 0])
              /\ cached_metadata' = locals.cached_metadata
              /\ batch_convert' = BatchConvertRecord(pairs, locals)
              /\ IF PayloadMismatch(pairs, locals)
                 THEN /\ status' = "raised"
                      /\ error' = GrrException("AttributeError", "payload")
                      /\ output' = <<>>
                 ELSE /\ status' = "done"
                      /\ error' = None
                      /\ output' = PayloadBatchConvert(locals.converters,
                                                       locals.batch_data)
  /\ UNCHANGED <<token, options, BATCH_SIZE, stack, calls, visited>>

\* BatchConvert is called with an empty batch: metadata_value_pairs[0] raises
\* IndexError before anything else is done.
GrrMessageBatchConvertEmpty ==
  /\ input' = <<>>
  /\ status' = "raised"
  /\ error' = GrrException("IndexError", "list index out of range")
  /\ output' = <<>>
  /\ batch_convert' = [messages |-> batch_convert.messages,
                       pairs |-> <<>>,
                       cached_before |-> cached_metadata,
                       store_calls_before |-> Len(store_calls),
                       metadata_to_fetch |-> <<>>,
                       fetched_metadata |-> <<>>,
                       batch_data |-> <<>>]
  /\ UNCHANGED <<token, options, BATCH_SIZE, stack, converters_cache, calls, visited,
                 store_calls, cached_metadata>>

NextGrr ==
  \/ GrrMessageBatchConvert
  \/ GrrMessageBatchConvertEmpty

SpecGrr == InitGrr /\ [][NextGrr]_vars


\* ------------------------------------- claims on the GrrMessageConverter
\* A BatchConvert call has been made on the instance.
BatchConverted == batch_convert # NoBatchConvert

\* The sources of the messages of a batch.
SourcesOf(pairs) == {pairs[i][2].source : i \in 1..Len(pairs)}

\* The store calls made by the last BatchConvert call.
LastStoreCalls ==
  SubSeq(store_calls, batch_convert.store_calls_before + 1, Len(store_calls))

NoDuplicates(s) == \A i, j \in 1..Len(s) : s[i] = s[j] => i = j

\* C17: one BatchConvert call of the GrrMessageConverter opens the store at
\* most once, for exactly the distinct sources of the batch that are not in
\* cached_metadata, and not at all when every source is cached; afterwards the
\* metadata of every fetched client is in cached_metadata under the client's
\* own urn.
C17_OneLookupOfUncachedKeys ==
  BatchConverted =>
    LET missing == SourcesOf(batch_convert.pairs) \ DOMAIN batch_convert.cached_before
    IN /\ Len(LastStoreCalls) <= 1
       /\ (missing = {}) <=> (LastStoreCalls = <<>>)
       /\ missing # {} =>
            /\ LastStoreCalls[1].op = "MultiOpen"
            /\ LastStoreCalls[1].urns = missing
            /\ Range(batch_convert.metadata_to_fetch) = missing
            /\ NoDuplicates(batch_convert.metadata_to_fetch)
       /\ \A urn \in missing \cap StoreUrns :
            /\ urn \in DOMAIN cached_metadata
            /\ cached_metadata[urn] = GetMetadata(StoreObject(urn))
       /\ DOMAIN cached_metadata =
            DOMAIN batch_convert.cached_before \cup (missing \cap StoreUrns)
       /\ \A urn \in DOMAIN batch_convert.cached_before :
            cached_metadata[urn] = batch_convert.cached_before[urn]

\* Witness of C17: a call on a batch of two sources, one cached by an earlier
\* call and one not, fetched the other one alone.
C17_Witness ==
  /\ BatchConverted
  /\ status = "done"
  /\ Cardinality(SourcesOf(batch_convert.pairs)) = 2
  /\ DOMAIN batch_convert.cached_before = {"aff4:/C.1"}
  /\ Len(LastStoreCalls) = 1
  /\ LastStoreCalls[1].urns = {"aff4:/C.2"}
  /\ DOMAIN cached_metadata = ClientUrns


\* The context the claim requires for the message of a pair whose source has
\* cached metadata: the client's descriptive fields, the supplied provenance.
ExpectedContext(pair) ==
  ExportedMetadata(pair[2].source, cached_metadata[pair[2].source].hostname,
                   pair[1].source_urn, pair[1].timestamp)

ExpectedBatchData(pairs) ==
  {<<ExpectedContext(pairs[i]), pairs[i][2].payload>> :
     i \in {j \in 1..Len(pairs) : pairs[j][2].source \in DOMAIN cached_metadata}}

\* C18: every payload the GrrMessageConverter converts is paired with a
\* metadata whose descriptive fields are those cached for the message's own
\* source and whose timestamp and source_urn are those of the metadata
\* supplied with the message; the cached metadata stay as they were fetched.
C18_ContextFromCacheAndEnvelope ==
  BatchConverted =>
    /\ \A k \in 1..Len(batch_convert.batch_data) :
         batch_convert.batch_data[k] \in ExpectedBatchData(batch_convert.pairs)
    /\ \A k \in 1..Len(output) :
         \E d \in ExpectedBatchData(batch_convert.pairs) : output[k].metadata = d[1]
    /\ \A urn \in DOMAIN cached_metadata :
         cached_metadata[urn] = GetMetadata(StoreObject(urn))

\* Witness of C18: two messages of one client, supplied with different
\* metadata, were converted with the metadata cached by an earlier call.
C18_Witness ==
  /\ BatchConverted
  /\ status = "done"
  /\ Len(batch_convert.pairs) = 2
  /\ SourcesOf(batch_convert.pairs) = {"aff4:/C.1"}
  /\ "aff4:/C.1" \in DOMAIN batch_convert.cached_before
  /\ {batch_convert.batch_data[k][1].timestamp :
        k \in 1..Len(batch_convert.batch_data)} = {1, 2}
  /\ \A k \in 1..Len(batch_convert.batch_data) :
       batch_convert.batch_data[k][1].hostname = "host1"
  /\ Len(output) >= 2


\* The payloads of the batch are of one type, as BatchConvert assumes.
UniformPayloads(pairs) ==
  \A i, j \in 1..Len(pairs) : TypeName(pairs[i][2].payload) = TypeName(pairs[j][2].payload)

\* The messages of the batch whose source the store holds, in batch order.
ResolvedPairs(pairs) == SelectSeq(pairs, LAMBDA pair : pair[2].source \in StoreUrns)

\* What converting the payloads of the resolved messages yields: every output
\* of every converter of the payload's type, nothing for a type without
\* converter.
ExpectedConverted(pairs) ==
  Flatten([i \in 1..Len(ResolvedPairs(pairs)) |->
             LET pair == ResolvedPairs(pairs)[i]
             IN IF Registered(TypeName(pair[2].payload))
                THEN GroupOutputs(<<<<ExpectedContext(pair), pair[2].payload>>>>)
                ELSE <<>>])

\* C19: in a batch of messages with payloads of one type, the messages whose
\* source the lookup does not resolve add no output and raise no error, the
\* messages of the resolved sources are all converted, and every output
\* carries the metadata of a resolved client.
C19_UnresolvedSourcesDropped ==
  (BatchConverted /\ batch_convert.pairs # <<>>) =>
    /\ \A k \in 1..Len(batch_convert.batch_data) :
         batch_convert.batch_data[k][1].client_urn \in StoreUrns
    /\ Len(batch_convert.batch_data) = Len(ResolvedPairs(batch_convert.pairs))
    /\ UniformPayloads(batch_convert.pairs) =>
         /\ status = "done"
         /\ SameBag(output, ExpectedConverted(batch_convert.pairs))
    /\ \A k \in 1..Len(output) :
         /\ output[k].metadata.client_urn \in StoreUrns \cap SourcesOf(batch_convert.pairs)
         /\ output[k].metadata.hostname =
              ClientObject(output[k].metadata.client_urn).hostname

\* Witness of C19: a batch whose first message comes from a source the store
\* does not hold and whose second message comes from a client was converted
\* without error, with the outputs of the second message only.
C19_Witness ==
  /\ BatchConverted
  /\ status = "done"
  /\ Len(batch_convert.pairs) = 2
  /\ batch_convert.pairs[1][2].source \notin StoreUrns
  /\ batch_convert.pairs[2][2].source \in StoreUrns
  /\ UniformPayloads(batch_convert.pairs)
  /\ Len(batch_convert.batch_data) = 1
  /\ output # <<>>


\* The consumer's iteration ended with an error the claim allows: the
\* NoConverterFound of the caller's own activation, raised after every type
\* group of the input was taken up, or an error of a converter's constructor.
AllowedError ==
  \/ /\ RaisedNoConverterFound
     /\ error.depth = 1
     /\ Range(TopVisitedTags) = TagsOf(input)
  \/ error.type = "TypeError"

\* C20: consuming ConvertValuesWithMetadata over records of registered and
\* unregistered types ends by exhaustion, with the NoConverterFound raised at
\* the very end, or with an error of a converter's construction; a record that
\* fails does not abort its batch and a group that fails does not keep the
\* other groups from being converted: when the iteration has ended, the
\* consumer has every output of every directly convertible record of the input.
C20_OnlyDeferredErrors ==
  /\ status = "raised" => AllowedError
  /\ Finished =>
       \A tag \in TagsOf(input) :
         DirectType(tag) =>
           \A r \in Range(GroupOutputs(InputGroup(tag))) :
             Count(output, r) >= Count(GroupOutputs(InputGroup(tag)), r)


\* ------------------------------------------------ the StatEntry converters
\* Most StatEntry values in the batch handed to the StatEntry converters.
MaxStatBatch == 2

\* StatEntryToExportedFileConverter.MAX_CONTENT_SIZE.
MAX_CONTENT_SIZE == 1024 * 64

\* stat_entry.HasField(name): whether the optional field is set.
HasField(value, field) == field \in DOMAIN value

\* A StatEntry of a registry value: registry_type and registry_data are set.
RegistryStatEntry(path, mtime, registry_type, registry_data) ==
  [type |-> "StatEntry", aff4path |-> path, st_size |-> 0, st_mtime |-> mtime,
   registry_type |-> registry_type, registry_data |-> registry_data]

\* Python values a DataBlob's GetValue() returns: byte strings, unicode
\* strings (as code points) and integers.
PyStr(bytes) == [type |-> "str", bytes |-> bytes]
PyUnicode(codes) == [type |-> "unicode", codes |-> codes]
PyInt(n) == [type |-> "int", n |-> n]

\* The decimal digits of a natural number, as bytes.
RECURSIVE Decimal(_)
Decimal(n) == IF n < 10 THEN <<48 + n>> ELSE Append(Decimal(n \div 10), 48 + (n % 10))

\* Whether str(value) raises UnicodeEncodeError: the implicit ascii codec
\* cannot encode a unicode string with a code point above 127.
StrRaises(value) ==
  /\ value.type = "unicode"
  /\ \E i \in 1..Len(value.codes) : value.codes[i] > 127

\* str(value) when it does not raise.
Str(value) ==
  IF value.type = "str" THEN value
  ELSE IF value.type = "unicode" THEN PyStr(value.codes)
  ELSE PyStr(Decimal(value.n))

\* unicode(value).encode("utf-16be") of a unicode string of the basic plane:
\* two bytes per code point, the high byte first.
Utf16be(value) ==
  PyStr(Flatten([i \in 1..Len(value.codes) |->
                   <<value.codes[i] \div 256, value.codes[i] % 256>>]))

\* hashlib.sha256(content).hexdigest(): a digest determined by the content.
Sha256(content) == [type |-> "sha256", of |-> content.bytes]

\* The objects of the store the StatEntry values point to: a file with a HASH
\* attribute and readable content, a file without HASH whose Read raises
\* IOError, a directory (no HASH, no Read method: AttributeError) and the
\* object of a registry value.  Any other address is missing.
FileUrns == {"aff4:/C.1/fs/os/a", "aff4:/C.1/fs/os/b", "aff4:/C.1/fs/os/d",
             "aff4:/C.1/registry/k1"}

FileObject(urn) ==
  IF urn = "aff4:/C.1/fs/os/a"
  THEN [type |-> "VFSFile", urn |-> urn, hash |-> [sha256 |-> "h-a"],
        content |-> <<97, 98, 99>>, read_raises |-> None]
  ELSE IF urn = "aff4:/C.1/fs/os/b"
  THEN [type |-> "VFSFile", urn |-> urn, hash |-> None,
        content |-> <<>>, read_raises |-> [type |-> "IOError"]]
  ELSE IF urn = "aff4:/C.1/fs/os/d"
  THEN [type |-> "VFSDirectory", urn |-> urn, hash |-> None,
        content |-> <<>>, read_raises |-> [type |-> "AttributeError"]]
  ELSE [type |-> "VFSFile", urn |-> urn, hash |-> [sha256 |-> "h-k1"],
        content |-> <<107>>, read_raises |-> None]

\* aff4.FACTORY.MultiOpen(aff4_paths, mode="r", token=token) over these
\* objects: each held address once, in an order the store chooses.
MultiOpenFiles(aff4_paths) ==
  {[i \in 1..Len(order) |-> FileObject(order[i])] :
     order \in Enumerations(Range(aff4_paths) \cap FileUrns)}

\* aff4_object.Read(length): at most length bytes from the start.
Read(aff4_object, length) ==
  PyStr(SubSeq(aff4_object.content, 1,
               IF Len(aff4_object.content) < length THEN Len(aff4_object.content)
               ELSE length))

\* StatEntry values of the batch: three files the store holds, one it does
\* not hold, and registry values with str, ascii unicode, non-ascii unicode
\* and integer data.
SA == StatEntry("aff4:/C.1/fs/os/a", 3)
SB == StatEntry("aff4:/C.1/fs/os/b", 5)
SD == StatEntry("aff4:/C.1/fs/os/d", 0)
SG == StatEntry("aff4:/C.1/fs/os/gone", 7)
RK1 == RegistryStatEntry("aff4:/C.1/registry/k1", 11, "REG_SZ", PyUnicode(<<107>>))
RK2 == RegistryStatEntry("aff4:/C.1/registry/k2", 12, "REG_SZ", PyUnicode(<<233, 8364>>))
RK3 == RegistryStatEntry("aff4:/C.1/registry/k3", 13, "REG_DWORD", PyInt(42))
RK4 == RegistryStatEntry("aff4:/C.1/registry/k4", 14, "REG_BINARY", PyStr(<<0, 255>>))

StatPairs ==
  { <<MA, SA>>, <<MB, SB>>, <<MA, SD>>, <<MB, SG>>,
    <<MA, RK1>>, <<MB, RK2>>, <<MA, RK3>>, <<MB, RK4>> }

StatBatches == UNION {[1..k -> StatPairs] : k \in 0..MaxStatBatch}

\* The options a caller may construct the converters with; None when the
\* caller gives none.
StatOptions ==
  {None} \cup [export_files_hashes : BOOLEAN, export_files_contents : BOOLEAN]

\* StatEntryToExportedRegistryKeyConverter.Convert: nothing for a StatEntry
\* without registry_type, else one ExportedRegistryKey whose data is
\* str(registry_data.GetValue()).  When str() raises UnicodeEncodeError the
\* handler evaluates stat.registry_data, and `stat` is the standard module
\* imported at the top of the file, not the stat_entry: AttributeError is
\* raised inside the handler and leaves Convert.
StatEntryToExportedRegistryKey(metadata, stat_entry) ==
  IF ~HasField(stat_entry, "registry_type")
  THEN [results |-> <<>>, raises |-> None]
  ELSE IF StrRaises(stat_entry.registry_data)
  THEN [results |-> <<>>,
        raises |-> [type |-> "AttributeError",
                    text |-> "'module' object has no attribute 'registry_data'"]]
  ELSE [results |-> << [kind |-> "ExportedRegistryKey", metadata |-> metadata,
                        urn |-> stat_entry.aff4path,
                        last_modified |-> stat_entry.st_mtime,
                        type |-> stat_entry.registry_type,
                        data |-> Str(stat_entry.registry_data)] >>,
        raises |-> None]

\* ExportConverter.BatchConvert, which the registry-key converter inherits:
\* the results of Convert for each pair in turn, up to the first Convert that
\* raises.
RECURSIVE RegistryKeyBatchConvert(_)
RegistryKeyBatchConvert(pairs) ==
  IF pairs = <<>> THEN [results |-> <<>>, raises |-> None]
  ELSE LET first == StatEntryToExportedRegistryKey(pairs[1][1], pairs[1][2])
           rest == RegistryKeyBatchConvert(Tail(pairs))
       IN IF first.raises # None THEN first
          ELSE [results |-> first.results \o rest.results, raises |-> rest.raises]

\* Mutant: the filter also drops the entries whose object the store lacks.
FilteredPairsHeld(metadata_value_pairs) ==
  SelectSeq(metadata_value_pairs,
            LAMBDA pair : /\ ~HasField(pair[2], "registry_type")
                          /\ pair[2].aff4path \in FileUrns)

\* filtered_pairs of StatEntryToExportedFileConverter.BatchConvert: the pairs
\* whose StatEntry has no registry_type, in batch order.
FilteredPairs(metadata_value_pairs) ==
  SelectSeq(metadata_value_pairs, LAMBDA pair : ~HasField(pair[2], "registry_type"))

\* aff4_paths: the address of every pair of the batch, registry values
\* included.
Aff4Paths(metadata_value_pairs) ==
  [i \in 1..Len(metadata_value_pairs) |-> metadata_value_pairs[i][2].aff4path]

\* fds_dict = dict([(fd.urn, fd) for fd in fds]).
FdsDict(fds) == [urn \in {fds[i].urn : i \in 1..Len(fds)} |-> FileObject(urn)]

\* Whether BatchConvert opens the objects of the batch.
OpensObjects(opts) == opts.export_files_hashes \/ opts.export_files_contents

\* Mutant: the content is read whatever export_files_contents says.
StatEntryToExportedFileReadsAlways(metadata, stat_entry, fds_dict, opts) ==
  LET result == [kind |-> "ExportedFile", metadata |-> metadata,
                 urn |-> stat_entry.aff4path, st_size |-> stat_entry.st_size,
                 hash_sha256 |-> "", content |-> None, content_sha256 |-> None]
  IN IF ~OpensObjects(opts) \/ stat_entry.aff4path \notin DOMAIN fds_dict
     THEN result
     ELSE LET aff4_object == fds_dict[stat_entry.aff4path]
              hashed == IF opts.export_files_hashes /\ aff4_object.hash # None
                        THEN ParseFileHash(aff4_object.hash, result)
                        ELSE result
          IN IF aff4_object.read_raises = None
             THEN [hashed EXCEPT
                     !.content = Read(aff4_object, MAX_CONTENT_SIZE),
                     !.content_sha256 = Sha256(Read(aff4_object, MAX_CONTENT_SIZE))]
             ELSE hashed

\* The body of the second loop of StatEntryToExportedFileConverter.
\* BatchConvert: the ExportedFile of one filtered pair.  The hash fields are
\* parsed from the object's HASH attribute and the content read when the
\* options ask for them; a KeyError for an address missing from fds_dict and
\* an IOError or AttributeError of Read leave the result as it is.
StatEntryToExportedFile(metadata, stat_entry, fds_dict, opts) ==
  LET result == [kind |-> "ExportedFile", metadata |-> metadata,
                 urn |-> stat_entry.aff4path, st_size |-> stat_entry.st_size,
                 hash_sha256 |-> "", content |-> None, content_sha256 |-> None]
  IN IF ~OpensObjects(opts) \/ stat_entry.aff4path \notin DOMAIN fds_dict
     THEN result
     ELSE LET aff4_object == fds_dict[stat_entry.aff4path]
              hashed == IF opts.export_files_hashes /\ aff4_object.hash # None
                        THEN ParseFileHash(aff4_object.hash, result)
                        ELSE result
          IN IF opts.export_files_contents /\ aff4_object.read_raises = None
             THEN [hashed EXCEPT
                     !.content = Read(aff4_object, MAX_CONTENT_SIZE),
                     !.content_sha256 = Sha256(Read(aff4_object, MAX_CONTENT_SIZE))]
             ELSE hashed

\* The results StatEntryToExportedFileConverter.BatchConvert yields for the
\* batch, given the objects the store returned.
ExportedFiles(metadata_value_pairs, fds, opts) ==
  LET filtered_pairs == FilteredPairs(metadata_value_pairs)
  IN [i \in 1..Len(filtered_pairs) |->
        StatEntryToExportedFile(filtered_pairs[i][1], filtered_pairs[i][2],
                                FdsDict(fds), opts)]

\* The two converters registered for StatEntry.
StatConverters ==
  {"StatEntryToExportedFileConverter", "StatEntryToExportedRegistryKeyConverter"}

\* The record kept of a converter's BatchConvert over the batch.
StatCall(converter, results, raises, opened) ==
  [converter |-> converter, pairs |-> input, results |-> results, raises |-> raises,
   opened |-> opened]

StatRan(converter) == \E i \in 1..Len(calls) : calls[i].converter = converter

StatStatus(converter, raises) ==
  IF raises # None THEN "raised"
  ELSE IF \A other \in StatConverters \ {converter} : StatRan(other) THEN "done"
  ELSE "converting"

\* The state before the conversion of one group of StatEntry values: the
\* batch and the options the converters are constructed with.
InitStat ==
  /\ input \in StatBatches
  /\ options \in StatOptions
  /\ token = CallerToken
  /\ BATCH_SIZE = 1
  /\ stack = <<>>
  /\ output = <<>>
  /\ status = "init"
  /\ error = None
  /\ converters_cache = <<>>
  /\ calls = <<>>
  /\ visited = <<>>
  /\ store_calls = <<>>
  /\ cached_metadata = <<>>
  /\ batch_convert = NoBatchConvert

\* The generator of StatEntryToExportedFileConverter(options).BatchConvert(
\* input, token) is consumed to its end.
StatEntryToExportedFileBatchConvert ==
  LET converter == NewConverter("StatEntryToExportedFileConverter", options)
  IN /\ status \in {"init", "converting"}
     /\ ~StatRan(converter.cls)
     /\ \E fds \in IF OpensObjects(converter.options)
                   THEN MultiOpenFiles(Aff4Paths(input)) ELSE {<<>>} :
          LET results == ExportedFiles(input, fds, converter.options)
          IN /\ store_calls' =
                  IF OpensObjects(converter.options)
                  THEN Append(store_calls,
                              [by |-> converter.cls, op |-> "MultiOpen",
                               urns |-> Aff4Paths(input), token |-> token,
                               pairs |-> input, depth |-> 0])
                  ELSE store_calls
             /\ calls' = Append(calls, StatCall(converter.cls, results, None,
                                                OpensObjects(converter.options)))
             /\ output' = output \o results
     /\ status' = StatStatus(converter.cls, None)
     /\ UNCHANGED <<input, token, options, BATCH_SIZE, stack, error, converters_cache,
                    visited, cached_metadata, batch_convert>>

\* The generator of StatEntryToExportedRegistryKeyConverter(options).
\* BatchConvert(input, token) is consumed to its end, or to the Convert that
\* raises.
StatEntryToExportedRegistryKeyBatchConvert ==
  LET converter == NewConverter("StatEntryToExportedRegistryKeyConverter", options)
      outcome == RegistryKeyBatchConvert(input)
  IN /\ status \in {"init", "converting"}
     /\ ~StatRan(converter.cls)
     /\ calls' = Append(calls, StatCall(converter.cls, outcome.results,
                                        outcome.raises, FALSE))
     /\ output' = output \o outcome.results
     /\ status' = StatStatus(converter.cls, outcome.raises)
     /\ error' = outcome.raises
     /\ UNCHANGED <<input, token, options, BATCH_SIZE, stack, converters_cache, visited,
                    store_calls, cached_metadata, batch_convert>>

NextStat ==
  \/ StatEntryToExportedFileBatchConvert
  \/ StatEntryToExportedRegistryKeyBatchConvert

SpecStat == InitStat /\ [][NextStat]_vars


\* ---------------------------------------------------------------- C21
\* The data the claim expects in the key of a registry value: its text, or
\* the utf-16be bytes when the text conversion fails.
ExpectedRegistryData(value) == IF StrRaises(value) THEN Utf16be(value) ELSE Str(value)

ExpectedRegistryKeys(pairs) ==
  LET registry_pairs == SelectSeq(pairs, LAMBDA pair : HasField(pair[2], "registry_type"))
  IN [i \in 1..Len(registry_pairs) |->
        [kind |-> "ExportedRegistryKey", metadata |-> registry_pairs[i][1],
         urn |-> registry_pairs[i][2].aff4path,
         last_modified |-> registry_pairs[i][2].st_mtime,
         type |-> registry_pairs[i][2].registry_type,
         data |-> ExpectedRegistryData(registry_pairs[i][2].registry_data)]]

RegistryKeyCalls ==
  SelectSeq(calls, LAMBDA call : call.converter = "StatEntryToExportedRegistryKeyConverter")

\* C21: the registry-key converter raises nothing and emits exactly one
\* ExportedRegistryKey per registry value of the batch, whose data is the
\* text of the value, or its byte-level (utf-16be) form when the text
\* conversion fails.
C21_UndecodableDataFallsBack ==
  \A i \in 1..Len(RegistryKeyCalls) :
    /\ RegistryKeyCalls[i].raises = None
    /\ RegistryKeyCalls[i].results = ExpectedRegistryKeys(RegistryKeyCalls[i].pairs)


\* ------------------------------------------------ the volatility converters
\* Most sections of a VolatilityResult.
MaxSections == 2

\* A class attribute value: a dict, a class or None.
PyDict(items) == [type |-> "dict", items |-> items]
PyClass(name) == [type |-> "class", name |-> name]

\* `not value` for such a value: None and the empty dict are false.
Falsy(value) == value = None \/ (value.type = "dict" /\ DOMAIN value.items = {})

\* A subclass of VolatilityResultConverter with its two class attributes.
VolatilityClass(mapping, output_rdf_cls) ==
  [name |-> "VolatilityResultConverter", mapping |-> mapping,
   output_rdf_cls |-> output_rdf_cls]

\* The mapping of VolatilityResultToExportedVolatilityHandleConverter (two of
\* its entries) and its output class.
HandleMapping == PyDict([h \in {"pid", "obj_type"} |-> IF h = "pid" THEN "pid" ELSE "type"])
HandleClass == PyClass("ExportedVolatilityHandle")

\* The subclasses that can be declared: with or without a mapping (None as
\* in the base class, or empty), with or without an output class.
VolatilityClasses ==
  {VolatilityClass(mapping, output_rdf_cls) :
     mapping \in {None, PyDict(<<>>), HandleMapping},
     output_rdf_cls \in {None, HandleClass}}

\* A table value: its string and its integer form.
TableValue(svalue, value) == [svalue |-> svalue, value |-> value]

Section(headers, rows) == [headers |-> headers, rows |-> rows]

\* Sections: mapped headers with two rows, an unmapped header, no rows.
VolatilitySections ==
  { Section(<<"pid", "obj_type">>,
            << <<TableValue("", 4), TableValue("File", 0)>>,
               <<TableValue("", 8), TableValue("Key", 0)>> >>),
    Section(<<"pid", "bogus">>, << <<TableValue("", 4), TableValue("x", 0)>> >>),
    Section(<<"pid">>, <<>>) }

VolatilityResults ==
  {[type |-> "VolatilityResult", sections |-> sections] :
     sections \in UNION {[1..k -> VolatilitySections] : k \in 0..MaxSections}}

\* Mutant: the constructor checks nothing.
VolatilityInitUnchecked(cls, args) ==
  IF Len(args) > 0
  THEN [instance |-> None,
        raises |-> [type |-> "TypeError", text |-> "__init__() takes exactly 1 argument"]]
  ELSE [instance |-> [cls |-> cls, options |-> DefaultExportOptions], raises |-> None]

\* VolatilityResultConverter.__init__(self), called as cls(*args): TypeError
\* for any argument besides self; else the base constructor runs without
\* options, and ValueError is raised when mapping or output_rdf_cls is false.
VolatilityInit(cls, args) ==
  IF Len(args) > 0
  THEN [instance |-> None,
        raises |-> [type |-> "TypeError", text |-> "__init__() takes exactly 1 argument"]]
  ELSE IF Falsy(cls.mapping)
  THEN [instance |-> None,
        raises |-> [type |-> "ValueError", text |-> "Mapping not specified."]]
  ELSE IF Falsy(cls.output_rdf_cls)
  THEN [instance |-> None,
        raises |-> [type |-> "ValueError", text |-> "output_rdf_cls not specified"]]
  ELSE [instance |-> [cls |-> cls, options |-> DefaultExportOptions], raises |-> None]

\* isinstance(getattr(out_rdf, attr), (str, unicode)) for the attributes of
\* the output class.
IsStringAttribute(attr) == attr = "type"

\* The rows of one section converted: output_rdf_cls(metadata=metadata) with
\* the attributes zip(headers, row.values) names; calling None raises
\* TypeError at the first row.
VolatilityRows(cls, metadata, headers, rows) ==
  IF rows # <<>> /\ cls.output_rdf_cls = None
  THEN [results |-> <<>>,
        raises |-> [type |-> "TypeError", text |-> "'NoneType' object is not callable"]]
  ELSE [results |->
          [r \in 1..Len(rows) |->
             LET n == IF Len(headers) < Len(rows[r]) THEN Len(headers) ELSE Len(rows[r])
             IN [kind |-> cls.output_rdf_cls.name, metadata |-> metadata,
                 attrs |-> [a \in {headers[i] : i \in 1..n} |->
                              LET i == CHOOSE j \in 1..n :
                                         /\ headers[j] = a
                                         /\ \A k \in 1..n : headers[k] = a => k <= j
                              IN IF IsStringAttribute(a) THEN rows[r][i].svalue
                                 ELSE rows[r][i].value]]],
        raises |-> None]

\* VolatilityResultConverter.Convert on an instance of cls: the sections in
\* order; a section with an unmapped header or without rows is skipped;
\* subscripting a mapping of None raises TypeError.
RECURSIVE VolatilityConvert(_, _, _)
VolatilityConvert(cls, metadata, sections) ==
  IF sections = <<>> THEN [results |-> <<>>, raises |-> None]
  ELSE LET section == Head(sections)
           rest == VolatilityConvert(cls, metadata, Tail(sections))
       IN IF section.headers # <<>> /\ cls.mapping = None
          THEN [results |-> <<>>,
                raises |-> [type |-> "TypeError",
                            text |-> "'NoneType' object has no attribute '__getitem__'"]]
          ELSE IF \E i \in 1..Len(section.headers) :
                    section.headers[i] \notin DOMAIN cls.mapping.items
          THEN rest
          ELSE IF section.rows = <<>>
          THEN rest
          ELSE LET headers == [i \in 1..Len(section.headers) |->
                                 cls.mapping.items[section.headers[i]]]
                   first == VolatilityRows(cls, metadata, headers, section.rows)
               IN IF first.raises # None THEN first
                  ELSE [results |-> first.results \o rest.results, raises |-> rest.raises]

\* The record kept of a constructor call or of a Convert call.
VolatilityCall(op, args, raises) == [op |-> op, args |-> args, raises |-> raises]

VolatilityCalled(op) == \E i \in 1..Len(calls) : calls[i].op = op

\* The state before a volatility converter class is instantiated: the class
\* (input[1]) and the VolatilityResult to convert (input[2]).
InitVolatility ==
  /\ input \in VolatilityClasses \X VolatilityResults
  /\ options = CallerOptions
  /\ token = CallerToken
  /\ BATCH_SIZE = 1
  /\ stack = <<>>
  /\ output = <<>>
  /\ status = "init"
  /\ error = None
  /\ converters_cache = <<>>
  /\ calls = <<>>
  /\ visited = <<>>
  /\ store_calls = <<>>
  /\ cached_metadata = <<>>
  /\ batch_convert = NoBatchConvert

\* The class is instantiated: cls() by a direct caller, or cls(options) as
\* the engine does.
VolatilityConstruct ==
  /\ status = "init"
  /\ \E args \in {<<>>, <<options>>} :
       LET made == VolatilityInit(input[1], args)
       IN /\ calls' = Append(calls, VolatilityCall("__init__", args, made.raises))
          /\ status' = IF made.raises = None THEN "constructed" ELSE "raised"
          /\ error' = made.raises
  /\ UNCHANGED <<input, token, options, BATCH_SIZE, stack, output, converters_cache,
                 visited, store_calls, cached_metadata, batch_convert>>

\* Convert(metadata, volatility_result) on the instance, consumed to its end
\* or to the record that raises.
VolatilityResultConvert ==
  /\ status = "constructed"
  /\ LET outcome == VolatilityConvert(input[1], MA, input[2].sections)
     IN /\ calls' = Append(calls, VolatilityCall("Convert", <<MA, input[2]>>,
                                                 outcome.raises))
        /\ output' = outcome.results
        /\ status' = IF outcome.raises = None THEN "done" ELSE "raised"
        /\ error' = outcome.raises
  /\ UNCHANGED <<input, token, options, BATCH_SIZE, stack, converters_cache, visited,
                 store_calls, cached_metadata, batch_convert>>

NextVolatility ==
  \/ VolatilityConstruct
  \/ VolatilityResultConvert

SpecVolatility == InitVolatility /\ [][NextVolatility]_vars

\* ---------------------------------------------------------------- C22
Constructed == \E i \in 1..Len(calls) : calls[i].op = "__init__" /\ calls[i].raises = None

ConfigurationAbsent == Falsy(input[1].mapping) \/ Falsy(input[1].output_rdf_cls)

\* C22: a volatility converter class whose mapping or output record class is
\* absent fails when it is constructed, before any record is converted: no
\* instance of it exists, Convert is never called on it and nothing is
\* output; and no Convert call ever raises.
C22_FailsAtConstruction ==
  /\ ConfigurationAbsent /\ VolatilityCalled("__init__")
       => /\ ~Constructed
          /\ status = "raised"
          /\ ~VolatilityCalled("Convert")
          /\ output = <<>>
  /\ \A i \in 1..Len(calls) : calls[i].op = "Convert" => calls[i].raises = None

\* A class without output record class was instantiated without arguments
\* and the constructor raised ValueError.
C22_Witness ==
  /\ ~Falsy(input[1].mapping)
  /\ Falsy(input[1].output_rdf_cls)
  /\ input[2].sections # <<>>
  /\ Len(calls) = 1
  /\ calls[1].args = <<>>
  /\ error = [type |-> "ValueError", text |-> "output_rdf_cls not specified"]


\* ------------------------------------ concurrent GetConvertersByValue calls
\* Threads that call GetConvertersByValue, and most calls of one thread.
MaxThreads == 2
MaxLookups == 2

\* The values the threads look up: two registered types and one without
\* converter.
LookupValues == {P1, D1, SA}

\* A thread's activation of GetConvertersByValue: where it is, the value it
\* was called with, its local `results` and the list it returned; n counts
\* the thread's calls.
ThreadFrame(pc, value, results, n) ==
  [pc |-> pc, value |-> value, results |-> results, n |-> n]

\* Mutant: the write replaces the cache by the new entry alone.
CacheWriteAlone(cache, name, results) == [t \in {name} |-> results]

\* ExportConverter.converters_cache[name] = results.
CacheWrite(cache, name, results) ==
  [t \in DOMAIN cache \cup {name} |-> IF t = name THEN results ELSE cache[t]]

\* The state before any thread has called: the class-level cache is empty.
InitThreads ==
  /\ input = <<>>
  /\ options = CallerOptions
  /\ token = CallerToken
  /\ BATCH_SIZE = 1
  /\ stack = [t \in 1..MaxThreads |-> ThreadFrame("idle", None, <<>>, 0)]
  /\ output = <<>>
  /\ status = "init"
  /\ error = None
  /\ converters_cache = <<>>
  /\ calls = <<>>
  /\ visited = {}
  /\ store_calls = <<>>
  /\ cached_metadata = <<>>
  /\ batch_convert = NoBatchConvert

\* A thread calls GetConvertersByValue(value): the cache is read; a hit is
\* returned at once, a miss raises KeyError, which the thread catches.
ThreadLookup ==
  /\ \E t \in 1..MaxThreads : \E value \in LookupValues :
       /\ stack[t].pc \in {"idle", "returned"}
       /\ stack[t].n < MaxLookups
       /\ stack' = [stack EXCEPT ![t] =
                      IF TypeName(value) \in DOMAIN converters_cache
                      THEN ThreadFrame("returned", value,
                                       converters_cache[TypeName(value)], stack[t].n + 1)
                      ELSE ThreadFrame("missed", value, <<>>, stack[t].n + 1)]
       /\ visited' = visited \cup {TypeName(value)}
  /\ UNCHANGED <<input, token, options, BATCH_SIZE, output, status, error,
                 converters_cache, calls, store_calls, cached_metadata, batch_convert>>

\* The thread scans the registry for the classes of the value's type.
ThreadCompute ==
  /\ \E t \in 1..MaxThreads :
       /\ stack[t].pc = "missed"
       /\ stack' = [stack EXCEPT ![t] =
                      ThreadFrame("computed", stack[t].value,
                                  GetConvertersByValue(stack[t].value, <<>>).results,
                                  stack[t].n)]
  /\ UNCHANGED <<input, token, options, BATCH_SIZE, output, status, error,
                 converters_cache, calls, visited, store_calls, cached_metadata,
                 batch_convert>>

\* The thread stores its results in the cache.
ThreadWrite ==
  /\ \E t \in 1..MaxThreads :
       /\ stack[t].pc = "computed"
       /\ converters_cache' = CacheWrite(converters_cache, TypeName(stack[t].value),
                                         stack[t].results)
       /\ stack' = [stack EXCEPT ![t].pc = "written"]
  /\ UNCHANGED <<input, token, options, BATCH_SIZE, output, status, error, calls,
                 visited, store_calls, cached_metadata, batch_convert>>

\* The thread returns its results.
ThreadReturn ==
  /\ \E t \in 1..MaxThreads :
       /\ stack[t].pc = "written"
       /\ stack' = [stack EXCEPT ![t].pc = "returned"]
  /\ UNCHANGED <<input, token, options, BATCH_SIZE, output, status, error,
                 converters_cache, calls, visited, store_calls, cached_metadata,
                 batch_convert>>

NextThreads ==
  \/ ThreadLookup
  \/ ThreadCompute
  \/ ThreadWrite
  \/ ThreadReturn

SpecThreads == InitThreads /\ [][NextThreads]_vars

\* ---------------------------------------------------------------- C23
\* No thread is inside a lookup.
ThreadsQuiet == \A t \in 1..MaxThreads : stack[t].pc \in {"idle", "returned"}

\* Every entry of the cache is still there, unchanged, after the step.
CacheOnlyGrows ==
  \A name \in DOMAIN converters_cache :
    /\ name \in DOMAIN converters_cache'
    /\ converters_cache'[name] = converters_cache[name]

\* C23: under any interleaving of the lookups the cache is append-only (a
\* step never changes or removes an entry), every lookup returns the
\* registered converters of its type, an entry always equals the registered
\* converters of its type, and when no lookup is in progress the cache holds
\* exactly one entry per type looked up.
C23_CacheAppendOnly ==
  /\ [][CacheOnlyGrows]_vars
  /\ [](/\ \A t \in 1..MaxThreads :
             stack[t].pc = "returned"
               => /\ Range(stack[t].results) = RegisteredFor(TypeName(stack[t].value))
                  /\ NoDuplicates(stack[t].results)
        /\ \A name \in DOMAIN converters_cache :
             /\ Range(converters_cache[name]) = RegisteredFor(name)
             /\ NoDuplicates(converters_cache[name])
        /\ ThreadsQuiet => DOMAIN converters_cache = visited)

\* Two threads missed the same type and both have written its entry, after a
\* second type was cached.
C23_Witness ==
  /\ stack[1].pc = "written"
  /\ stack[2].pc = "written"
  /\ stack[1].value = P1
  /\ stack[2].value = P1
  /\ stack[1].n = 2
  /\ DOMAIN converters_cache = {"Process", "StatEntry"}


\* ------------------------------------------- the cron job approval workflow
\* Most attempts to enable the cron job.
MaxAttempts == 4

\* The users of the test: the requester (self.token.username), "approver"
\* and one more.
Requester == CallerToken.username
CronUsers == {Requester, "approver", "other"}

\* What the user is shown after an attempt to enable the job.
NoApproval == "Create a new approval"
NeedsTwoApprovers == "Requires 2 approvers for access."
NeedsAdmin == "At least 1 approver(s) should have 'admin' label."
Enabled == "Cron job was ENABLED successfully!"

\* Mutant: two approvers suffice, with or without the admin label.
CheckCronJobAccessTwoSuffice(approvers, admins) ==
  IF approvers = {} THEN NoApproval
  ELSE IF Cardinality(approvers) < 2 THEN NeedsTwoApprovers
  ELSE Enabled

\* The access check of an attempt by the requester, given the users who have
\* granted the requester's approval for the job and the users with the
\* 'admin' label at the time of the attempt.
CheckCronJobAccess(approvers, admins) ==
  IF approvers = {} THEN NoApproval
  ELSE IF Cardinality(approvers) < 2 THEN NeedsTwoApprovers
  ELSE IF approvers \cap admins = {} THEN NeedsAdmin
  ELSE Enabled

\* An attempt as it is remembered: the response, and the approvers and
\* admins at the time.
Attempt(response, approvers, admins) ==
  [response |-> response, approvers |-> approvers, admins |-> admins]

\* The state after the test's set-up: the OSBreakDown job is scheduled and
\* disabled, nobody has approved and nobody is admin.  status is the job's
\* state, visited the approvers of the requester's approval, cached_metadata
\* the users with the admin label and output the attempts so far.
InitCron ==
  /\ input = <<>>
  /\ options = CallerOptions
  /\ token = CallerToken
  /\ BATCH_SIZE = 1
  /\ stack = <<>>
  /\ output = <<>>
  /\ status = "DISABLED"
  /\ error = None
  /\ converters_cache = <<>>
  /\ calls = <<>>
  /\ visited = {}
  /\ store_calls = <<>>
  /\ cached_metadata = {}
  /\ batch_convert = NoBatchConvert

\* The requester clicks Enable and Proceed: the job is enabled when the
\* check passes, else the approval dialog shows what is missing.
EnableCronJob ==
  /\ status = "DISABLED"
  /\ Len(output) < MaxAttempts
  /\ LET response == CheckCronJobAccess(visited, cached_metadata)
     IN /\ output' = Append(output, Attempt(response, visited, cached_metadata))
        /\ status' = IF response = Enabled THEN "ENABLED" ELSE "DISABLED"
  /\ UNCHANGED <<input, token, options, BATCH_SIZE, stack, error, converters_cache,
                 calls, visited, store_calls, cached_metadata, batch_convert>>

\* CronJobApprovalGrantor(subject_urn, reason, delegate=requester,
\* token=approver's).Grant(), or the approver's click on Approve.
CronJobApprovalGrant ==
  /\ \E approver \in CronUsers \ visited : visited' = visited \cup {approver}
  /\ UNCHANGED <<input, token, options, BATCH_SIZE, stack, output, status, error,
                 converters_cache, calls, store_calls, cached_metadata, batch_convert>>

\* CreateAdminUser(user): the user gets the admin label.
CreateAdminUser ==
  /\ \E user \in CronUsers \ cached_metadata :
       cached_metadata' = cached_metadata \cup {user}
  /\ UNCHANGED <<input, token, options, BATCH_SIZE, stack, output, status, error,
                 converters_cache, calls, visited, store_calls, batch_convert>>

\* CRON_MANAGER.DisableJob(urn): the job is disabled again.
DisableJob ==
  /\ status = "ENABLED"
  /\ status' = "DISABLED"
  /\ UNCHANGED <<input, token, options, BATCH_SIZE, stack, output, error,
                 converters_cache, calls, visited, store_calls, cached_metadata,
                 batch_convert>>

NextCron ==
  \/ EnableCronJob
  \/ CronJobApprovalGrant
  \/ CreateAdminUser
  \/ DisableJob

SpecCron == InitCron /\ [][NextCron]_vars

\* ---------------------------------------------------------------- C24
\* The approval of the attempt has at least 2 approvers, at least 1 of them
\* with the admin label.
Approved(attempt) ==
  /\ Cardinality(attempt.approvers) >= 2
  /\ attempt.approvers \cap attempt.admins # {}

ExportedFileCalls ==
  SelectSeq(calls, LAMBDA call : call.converter = "StatEntryToExportedFileConverter")

\* The pairs of a batch whose StatEntry has no registry_type, in batch order.
FileEntries(pairs) == SelectSeq(pairs, LAMBDA pair : "registry_type" \notin DOMAIN pair[2])

\* The store holds no object for the path, or the object's Read fails.
Unreadable(path) == path \notin FileUrns \/ FileObject(path).read_raises # None

\* C25: the file converter's BatchConvert raises nothing and emits exactly one
\* ExportedFile per StatEntry without registry_type, in input order, whatever
\* the store returns; the content and its hash are unset after a missing
\* object or a failed read, and are always both set or both unset.
C25_OneExportedFilePerFileEntry ==
  \A c \in 1..Len(ExportedFileCalls) :
    LET call == ExportedFileCalls[c]
        entries == FileEntries(call.pairs)
    IN /\ call.raises = None
       /\ Len(call.results) = Len(entries)
       /\ \A k \in 1..Len(entries) :
            /\ call.results[k].kind = "ExportedFile"
            /\ call.results[k].metadata = entries[k][1]
            /\ call.results[k].urn = entries[k][2].aff4path
            /\ call.results[k].st_size = entries[k][2].st_size
            /\ call.results[k].content = None <=> call.results[k].content_sha256 = None
            /\ call.results[k].content # None =>
                 call.results[k].content_sha256 = Sha256(call.results[k].content)
            /\ Unreadable(entries[k][2].aff4path) =>
                 /\ call.results[k].content = None
                 /\ call.results[k].content_sha256 = None
            /\ entries[k][2].aff4path \notin FileUrns => call.results[k].hash_sha256 = ""

\* With both options enabled, a batch of a file the store lacks and a
\* readable file was converted: two ExportedFiles in input order, the first
\* without content, the second with content and its hash.
C25_Witness ==
  /\ options = [export_files_hashes |-> TRUE, export_files_contents |-> TRUE]
  /\ Len(input) = 2
  /\ input[1][2] = SG
  /\ input[2][2] = SA
  /\ Len(ExportedFileCalls) = 1
  /\ Len(ExportedFileCalls[1].results) = 2
  /\ ExportedFileCalls[1].results[1].content = None
  /\ ExportedFileCalls[1].results[2].content = PyStr(<<97, 98, 99>>)
  /\ ExportedFileCalls[1].results[2].content_sha256 # None

\* ---------------------------------------------------------------- C26
\* The options the converters work with: the caller's, or the defaults.
EffectiveOptions == IF options = None THEN DefaultExportOptions ELSE options

ExportedFileStoreCalls ==
  SelectSeq(store_calls, LAMBDA call : call.by = "StatEntryToExportedFileConverter")

\* C26: the file converter opens the store only when the hash or the content
\* option is enabled, then exactly once per batch with the paths of the
\* batch; a hash field is set only when the hash option is enabled and the
\* store holds a hash for the path, and the content only when the content
\* option is enabled, so without the content option (or without options) no
\* output has content.
C26_StoreAndFieldsFollowOptions ==
  /\ Len(ExportedFileStoreCalls) =
       IF ExportedFileCalls # <<>> /\ (EffectiveOptions.export_files_hashes
                                       \/ EffectiveOptions.export_files_contents)
       THEN 1 ELSE 0
  /\ \A s \in 1..Len(ExportedFileStoreCalls) :
       /\ ExportedFileStoreCalls[s].op = "MultiOpen"
       /\ Range(ExportedFileStoreCalls[s].urns) = {input[i][2].aff4path : i \in 1..Len(input)}
  /\ \A c \in 1..Len(ExportedFileCalls) :
       \A k \in 1..Len(ExportedFileCalls[c].results) :
         LET result == ExportedFileCalls[c].results[k]
         IN /\ result.hash_sha256 # "" =>
                 /\ EffectiveOptions.export_files_hashes
                 /\ result.urn \in FileUrns
                 /\ FileObject(result.urn).hash # None
                 /\ result.hash_sha256 = FileObject(result.urn).hash.sha256
            /\ result.content # None => EffectiveOptions.export_files_contents
            /\ ~EffectiveOptions.export_files_contents =>
                 result.content = None /\ result.content_sha256 = None

\* With hashes enabled and contents disabled, a readable file with a hash was
\* converted after one batched open: the hash is set and the content is not.
C26_Witness ==
  /\ options = [export_files_hashes |-> TRUE, export_files_contents |-> FALSE]
  /\ Len(input) = 2
  /\ input[1][2] = SA
  /\ input[2][2] = SB
  /\ Len(ExportedFileStoreCalls) = 1
  /\ Len(ExportedFileCalls) = 1
  /\ ExportedFileCalls[1].results[1].hash_sha256 = "h-a"
  /\ ExportedFileCalls[1].results[1].content = None

\* ---------------------------------------------------------------- C27
\* The kind of record the claim expects for a StatEntry.
ExpectedKind(stat_entry) ==
  IF "registry_type" \in DOMAIN stat_entry THEN "ExportedRegistryKey" ELSE "ExportedFile"

\* The conversion of the group is over: both converters ran, or one raised.
StatGroupOver == status \in {"done", "raised"}

\* C27: neither StatEntry converter ever raises, and when both have converted
\* the group the output has exactly one record per StatEntry of the batch: an
\* ExportedRegistryKey for a StatEntry with registry_type, an ExportedFile
\* for one without.
C27_ExactlyOneConverterApplies ==
  /\ \A c \in 1..Len(calls) : calls[c].raises = None
  /\ StatGroupOver =>
       /\ status = "done"
       /\ Len(output) = Len(input)
       /\ \A i \in 1..Len(input) :
            LET path == input[i][2].aff4path
            IN /\ Len(SelectSeq(output, LAMBDA r : r.urn = path)) =
                    Len(SelectSeq(input, LAMBDA pair : pair[2].aff4path = path))
               /\ \A k \in 1..Len(output) :
                    output[k].urn = path => output[k].kind = ExpectedKind(input[i][2])


\* ------------------------------- a collection of GrrMessages, batch by batch
\* The messages a collection can hold.
GrrMessages == {pair[2] : pair \in GrrPairs}

GrrCollections == UNION {[1..k -> GrrMessages] : k \in 0..MaxMessages}

\* Where RDFValueCollectionConverter.Convert is: the number of the next
\* sub-batch, and whether the engine call for it has made its converter.
RunFrame(next, instantiated) == [next |-> next, instantiated |-> instantiated]

\* batch_data of ConvertValues for the k-th sub-batch of the collection.
RunPairs(k) == ConvertValuesPairs(MA, Grouper(input, BATCH_SIZE)[k])

\* The state when RDFValueCollectionConverter(options).Convert(MA,
\* collection, token) is called with a collection of GrrMessages.
InitRun ==
  /\ input \in GrrCollections
  /\ options = CallerOptions
  /\ token = CallerToken
  /\ BATCH_SIZE \in 1..MaxBatchSize
  /\ stack = <<RunFrame(1, FALSE)>>
  /\ output = <<>>
  /\ status = "init"
  /\ error = None
  /\ converters_cache = <<>>
  /\ calls = <<>>
  /\ visited = <<>>
  /\ store_calls = <<>>
  /\ cached_metadata = <<>>
  /\ batch_convert = NoBatchConvert

\* The next sub-batch is handed to ConvertValues; the engine groups it (one
\* group, of GrrMessage), looks up the converters and constructs a
\* GrrMessageConverter, whose cached_metadata is empty.
RunInstantiate ==
  /\ status \in {"init", "converting"}
  /\ ~stack[1].instantiated
  /\ stack[1].next <= Len(Grouper(input, BATCH_SIZE))
  /\ converters_cache' = GetConvertersByValue(RunPairs(stack[1].next)[1][2],
                                              converters_cache).cache
  /\ cached_metadata' = <<>>
  /\ stack' = <<RunFrame(stack[1].next, TRUE)>>
  /\ status' = "converting"
  /\ UNCHANGED <<input, token, options, BATCH_SIZE, output, error, calls, visited,
                 store_calls, batch_convert>>

\* The engine consumes BatchConvert(sub-batch, token) of the new converter
\* and the collection converter yields its results.
RunBatchConvert ==
  /\ status = "converting"
  /\ stack[1].instantiated
  /\ LET pairs == RunPairs(stack[1].next)
     IN \E keys \in Enumerations(DOMAIN MsgDict(pairs)) :
          \E client_fds \in MultiOpen(Range(MetadataToFetch(keys, cached_metadata))) :
            LET locals == GrrLocals(pairs, keys, client_fds)
            IN /\ converters_cache' = locals.converters_cache
               /\ store_calls' =
                    IF locals.metadata_to_fetch = <<>> THEN store_calls
                    ELSE Append(store_calls,
                                [by |-> "GrrMessageConverter", op |-> "MultiOpen",
                                 urns |-> Range(locals.metadata_to_fetch),
                                 token |-> token, pairs |-> pairs, depth |-> 1])
               /\ cached_metadata' = locals.cached_metadata
               /\ batch_convert' = BatchConvertRecord(pairs, locals)
               /\ IF PayloadMismatch(pairs, locals)
                  THEN /\ status' = "raised"
                       /\ error' = GrrException("AttributeError", "payload")
                       /\ output' = output
                  ELSE /\ status' = IF stack[1].next = Len(Grouper(input, BATCH_SIZE))
                                    THEN "done" ELSE "converting"
                       /\ error' = None
                       /\ output' = output \o PayloadBatchConvert(locals.converters,
                                                                  locals.batch_data)
  /\ stack' = <<RunFrame(stack[1].next + 1, FALSE)>>
  /\ UNCHANGED <<input, token, options, BATCH_SIZE, calls, visited>>

NextRun ==
  \/ RunInstantiate
  \/ RunBatchConvert

SpecRun == InitRun /\ [][NextRun]_vars

\* ---------------------------------------------------------------- C28
\* The store calls that asked for the client.
LookupsOf(client_urn) == {i \in 1..Len(store_calls) : client_urn \in store_calls[i].urns}

\* C28: within one run over a collection, whatever its sub-batches, the
\* metadata of each source is asked of the object store at most once.
C28_OneLookupPerSourcePerRun ==
  \A i \in 1..Len(input) : Cardinality(LookupsOf(input[i].source)) <= 1


\* ------------------------------------------- interleaved engine invocations
\* Engine invocations that may interleave, and most messages of one.
MaxCalls == 2
MaxCallMessages == 1

\* The batches an invocation is called with: messages of the two clients
\* with Process payloads.
CallPairs ==
  { <<MA, GrrMessage("aff4:/C.1", P1)>>, <<MB, GrrMessage("aff4:/C.2", P2)>>,
    <<MB, GrrMessage("aff4:/C.1", P2)>> }

CallBatches == UNION {[1..k -> CallPairs] : k \in 1..MaxCallMessages}

\* An activation of ConvertValuesWithMetadata: where it is, its batch, the
\* converter instance it constructed (0: none yet), the sources it asked the
\* store for and what it has yielded.
CallFrame(pc, pairs, instance, fetched, yielded) ==
  [pc |-> pc, pairs |-> pairs, instance |-> instance, fetched |-> fetched,
   yielded |-> yielded]

\* Mutant: the engine keeps one converter instance and hands it to every
\* invocation.
ConstructShared(heap) == IF heap = <<>> THEN <<<<>>>> ELSE heap

\* cls(options) for GrrMessageConverter: a new object, whose cached_metadata
\* is an empty dict, is added to the instances that exist.
Construct(heap) == Append(heap, <<>>)

\* The state before any invocation: no converter instance exists.
\* cached_metadata holds the cached_metadata of every instance and visited
\* the invocations that used each instance.
InitCalls ==
  /\ input = <<>>
  /\ options = CallerOptions
  /\ token = CallerToken
  /\ BATCH_SIZE = 1
  /\ stack = [i \in 1..MaxCalls |-> CallFrame("idle", <<>>, 0, {}, <<>>)]
  /\ output = <<>>
  /\ status = "init"
  /\ error = None
  /\ converters_cache = <<>>
  /\ calls = <<>>
  /\ visited = <<>>
  /\ store_calls = <<>>
  /\ cached_metadata = <<>>
  /\ batch_convert = NoBatchConvert

\* ConvertValuesWithMetadata(pairs, token, options) is called.
CallConvert ==
  /\ \E i \in 1..MaxCalls : \E pairs \in CallBatches :
       /\ stack[i].pc = "idle"
       /\ stack' = [stack EXCEPT ![i] = CallFrame("called", pairs, 0, {}, <<>>)]
  /\ UNCHANGED <<input, token, options, BATCH_SIZE, output, status, error,
                 converters_cache, calls, visited, store_calls, cached_metadata,
                 batch_convert>>

\* The invocation takes up its group, looks up the converter classes and
\* constructs the converter.
CallInstantiate ==
  /\ \E i \in 1..MaxCalls :
       /\ stack[i].pc = "called"
       /\ converters_cache' =
            GetConvertersByValue(stack[i].pairs[1][2], converters_cache).cache
       /\ cached_metadata' = Construct(cached_metadata)
       /\ stack' = [stack EXCEPT ![i].pc = "instantiated",
                                 ![i].instance = Len(Construct(cached_metadata))]
       /\ visited' = [id \in 1..Len(Construct(cached_metadata)) |->
                        IF id = Len(Construct(cached_metadata))
                        THEN (IF id \in DOMAIN visited THEN visited[id] ELSE {}) \cup {i}
                        ELSE visited[id]]
  /\ UNCHANGED <<input, token, options, BATCH_SIZE, output, status, error, calls,
                 store_calls, batch_convert>>

\* The invocation consumes BatchConvert(pairs, token) of its converter, which
\* reads and fills the instance's cached_metadata.
CallBatchConvert ==
  /\ \E i \in 1..MaxCalls :
       LET frame == stack[i]
           cache == cached_metadata[frame.instance]
       IN /\ frame.pc = "instantiated"
          /\ \E keys \in Enumerations(DOMAIN MsgDict(frame.pairs)) :
               \E client_fds \in MultiOpen(Range(MetadataToFetch(keys, cache))) :
                 LET lookup == GetConvertersByValue(frame.pairs[1][2].payload,
                                                    converters_cache)
                     converters == [c \in 1..Len(lookup.results) |->
                                      NewConverter(lookup.results[c], options)]
                     fetched_metadata == [k \in 1..Len(client_fds) |->
                                            GetMetadata(client_fds[k])]
                     metadata_objects == CachedMetadataObjects(keys, cache)
                                           \o fetched_metadata
                     batch_data == BatchData(metadata_objects, MsgDict(frame.pairs))
                 IN /\ converters_cache' = lookup.cache
                    /\ cached_metadata' =
                         [cached_metadata EXCEPT ![frame.instance] =
                            IF MetadataToFetch(keys, cache) = <<>> THEN cache
                            ELSE CachedMetadataAfter(cache, fetched_metadata)]
                    /\ stack' = [stack EXCEPT ![i] =
                                   CallFrame("done", frame.pairs, frame.instance,
                                             Range(MetadataToFetch(keys, cache)),
                                             PayloadBatchConvert(converters, batch_data))]
          /\ visited' = [visited EXCEPT ![frame.instance] = @ \cup {i}]
  /\ UNCHANGED <<input, token, options, BATCH_SIZE, output, status, error, calls,
                 store_calls, batch_convert>>

NextCalls ==
  \/ CallConvert
  \/ CallInstantiate
  \/ CallBatchConvert

SpecCalls == InitCalls /\ [][NextCalls]_vars

\* ---------------------------------------------------------------- C29
\* C29: every invocation that has a converter has one of its own: no two
\* invocations hold the same instance, an instance is used by one invocation
\* only, and an invocation that is done has asked the store itself for every
\* source of its batch and left in its instance's cache the metadata of its
\* own sources only.
C29_FreshInstancePerInvocation ==
  /\ \A i, j \in 1..MaxCalls :
       i # j /\ stack[i].instance # 0 => stack[i].instance # stack[j].instance
  /\ \A id \in 1..Len(visited) : Cardinality(visited[id]) <= 1
  /\ \A i \in 1..MaxCalls :
       stack[i].pc = "done" =>
         /\ stack[i].fetched = SourcesOf(stack[i].pairs)
         /\ DOMAIN cached_metadata[stack[i].instance] = SourcesOf(stack[i].pairs)

\* Two invocations with messages of the same client interleaved: the second
\* constructed its converter before the first did, and both are done, each
\* with its own instance.
C29_Witness ==
  /\ stack[1].pc = "done"
  /\ stack[2].pc = "done"
  /\ SourcesOf(stack[1].pairs) = {"aff4:/C.1"}
  /\ SourcesOf(stack[2].pairs) = {"aff4:/C.1"}
  /\ stack[1].instance = 2
  /\ stack[2].instance = 1


\* --------------------------------------- a store call that does not return
\* The inputs of the runs in which the store may fail: addresses the store
\* holds or lacks, next to values of the other kinds of group.
CancelPairs ==
  { <<"m1", P1>>, <<"m1", D1>>, <<"m1", U1>>, <<"m2", U2>>, <<"m1", U3>>,
    <<"m1", V1>>, <<"m1", CS1>>, <<"m1", I1>>, <<"m2", CollProcs>> }

CancelInputs == UNION {[1..k -> CancelPairs] : k \in 0..MaxInput}

InitCancel ==
  /\ input \in CancelInputs
  /\ token = CallerToken
  /\ options = CallerOptions
  /\ BATCH_SIZE \in (IF HasCollection(input) THEN 1..MaxBatchSize ELSE {1})
  /\ stack = <<>>
  /\ output = <<>>
  /\ status = "init"
  /\ error = None
  /\ converters_cache = <<>>
  /\ calls = <<>>
  /\ visited = <<>>
  /\ store_calls = <<>>
  /\ cached_metadata = <<>>
  /\ batch_convert = NoBatchConvert

\* The store call of the batch, remembered as one that raised.
CancelledStoreCall ==
  [by |-> "RDFURNConverter", op |-> "MultiOpen", urns |-> DOMAIN UrnsDict(CurrentGroup),
   token |-> Top.token, pairs |-> CurrentGroup, depth |-> Len(stack),
   outcome |-> "cancelled"]

\* Mutant: the converter treats the failed store call as an empty result and
\* the engine goes on.
RDFURNBatchConvertCancelledReturnsNothing ==
  /\ NextConverterReady
  /\ NextConverter.cls = "RDFURNConverter"
  /\ store_calls' = Append(store_calls, CancelledStoreCall)
  /\ stack' = SetTop([Top EXCEPT !.ci = @ + 1])
  /\ UNCHANGED <<input, token, options, BATCH_SIZE, output, status, error,
                 converters_cache, calls, visited, cached_metadata, batch_convert>>

\* RDFURNConverter.BatchConvert when aff4.FACTORY.MultiOpen is cancelled or
\* times out: the call raises before the try statement is reached, and no
\* activation between it and the consumer has a handler.
RDFURNBatchConvertCancelled ==
  /\ NextConverterReady
  /\ NextConverter.cls = "RDFURNConverter"
  /\ store_calls' = Append(store_calls, CancelledStoreCall)
  /\ stack' = <<>>
  /\ status' = "raised"
  /\ error' = Exception("Cancelled", "MultiOpen", Len(stack))
  /\ UNCHANGED <<input, token, options, BATCH_SIZE, output, converters_cache, calls,
                 visited, cached_metadata, batch_convert>>

NextCancel ==
  \/ Next
  \/ RDFURNBatchConvertCancelled

SpecCancel == InitCancel /\ [][NextCancel]_vars

\* ---------------------------------------------------------------- C30
\* Some store call of the run was cancelled or timed out.
Cancelled == \E i \in 1..Len(store_calls) : "outcome" \in DOMAIN store_calls[i]

\* C30: once a batched open of the store has been cancelled, the run has
\* failed with that error at the caller and no activation is left, and from
\* then on no further group is taken up, nothing more is output and the run
\* never ends normally.
C30_CancellationReachesCaller ==
  /\ [](Cancelled => /\ status = "raised"
                     /\ error.type = "Cancelled"
                     /\ stack = <<>>)
  /\ [][Cancelled' => /\ visited' = visited
                      /\ output' = output
                      /\ status' # "done"]_vars

\* The store call of the first group taken up was cancelled after that group
\* had been looked up, and the input has a second group that was never taken
\* up.
C30_Witness ==
  /\ Cancelled
  /\ Len(input) = 2
  /\ Cardinality(TagsOf(input)) = 2
  /\ Len(visited) = 1
  /\ status = "raised"

====
